---- MODULE Spec2Model ----
(***************************************************************************)
(* restic-manager: the per-service lock (utils/locker.rs), the backup      *)
(* coordinator (managers/backup.rs) and the rate-limited notification      *)
(* manager (managers/notification.rs), as state machines.                  *)
(*                                                                         *)
(*   SpecLock    concurrent BackupLock::acquire / drop on one lock path    *)
(*   SpecBackup  one BackupManager::backup_service run, step by step       *)
(*   SpecUnlock  the same run where unlock_repository may return Err       *)
(*   SpecHooks   one run of a hook list (run_pre_hooks / run_post_hooks)   *)
(*   SpecCron    a sequence of add_cron_job / remove_cron_job calls        *)
(*   SpecSnapshots  get_latest_snapshot over the listings of a repository  *)
(*   SpecNotify  a sequence of NotificationManager::send calls over time   *)
(*   SpecSenders  concurrent send calls of several processes, one cache    *)
(*   SpecDestinations  send calls that differ in the destination only      *)
(*   SpecAll     one BackupManager::backup_all run over the services       *)
(*   SpecConfig  validate_service, load_config and resolve_service         *)
(*   SpecNotifyOn  the same, over configurations differing in notify_on    *)
(***************************************************************************)
EXTENDS Integers, Sequences, FiniteSets, TLC

VARIABLES
    \* ---- lock file of one service (utils/locker.rs) ----
    lpc,          \* per process: position in acquire / drop
    lfd,          \* per process: inode its open File refers to (0: none)
    pathInode,    \* inode the lock path names (0: the path does not exist)
    flockOwner,   \* per inode: process holding the exclusive flock (0: none)
    inodesUsed,   \* inodes created so far
    crashedHolding, \* history: the inodes whose flock holder terminated abnormally
    \* ---- notification manager (managers/notification.rs) ----
    ncfg,         \* NotificationConfig: webhook configured, notify_on, rate_limit_minutes
    now,          \* SystemTime::now() in seconds since the epoch
    cache,        \* the persisted NotificationCache: cache key -> CacheEntry
    sends,        \* number of send calls made
    lastSend,     \* the latest send call: its input, what it did, what it returned
    lastOk,       \* history: per cache key, time of its latest confirmed delivery (-1: none)
    cacheIoFailed, \* history: some load or save of the cache file has failed
    sender,       \* per concurrent process: position in send, the cache it is about to save
    \* ---- one backup_service run (managers/backup.rs) ----
    svc,          \* the ResolvedServiceConfig of the service
    existing,     \* the configured paths that exist on disk
    lock,         \* the service lock: "free", "other" (another process), "run" (this run)
    bpc,          \* position of the run in backup_service / backup_to_destination
    ti,           \* index of the target being processed (0: none yet)
    hi,           \* index of the next hook of the list being run
    vi,           \* index of the next volume of the loop being run
    archived,     \* archived_paths of the current backup_volumes call
    cause,        \* the error backup_to_destination returns
    errors,       \* backup_service's `errors`
    success_count,
    over_threshold,         \* start_time.elapsed() > long_running_threshold_secs
    long_running_notified,
    staging,      \* the temporary directory of the service exists
    log,          \* history: the operations performed, in order
    notified,     \* history: the notifications handed to the notification manager
    notify_failed, \* history: the notification manager has returned an error to the run
    result,       \* what backup_service returned
    \* ---- one backup_all run (managers/backup.rs) ----
    resolved_services,  \* service name -> its `enabled` flag
    apc,                \* position of backup_all
    enabled_services,   \* the enabled services still to be iterated
    all_success_count,
    failure_count,
    all_errors,         \* backup_all's `errors`
    all_result,         \* what backup_all returned
    calls,              \* history: the services backup_service was called for, in order
    returned,           \* history: per service, what its backup_service call returned
    \* ---- configuration loading and resolution (config/loader.rs) ----
    config,             \* the Config: global defaults, destinations, profiles, the other services
    service,            \* the ServiceConfig being validated and resolved
    cpc,                \* position: what has been computed so far
    validation,         \* what validate_service returned for the service
    loaded,             \* what validate_config (load_config) returned
    resolved,           \* what resolve_service returned for the service
    \* ---- one run of a hook list (managers/backup.rs, run_hook) ----
    hk,                 \* the hooks, the service's timeout, the next hook, the executions, the result
    \* ---- the user's crontab (utils/cron.rs) ----
    crontab,            \* the lines `crontab -l` prints
    jobs,               \* history: per service, the schedule of its latest add (None: removed, never added)
    cron_calls,         \* number of add_cron_job / remove_cron_job calls made
    \* ---- get_latest_snapshot (utils/restic.rs) ----
    listing,            \* what list_snapshots returns: the snapshots in the order of the listing
    latest              \* what get_latest_snapshot returned

lockVars == <<lpc, lfd, pathInode, flockOwner, inodesUsed, crashedHolding>>

notifyVars == <<ncfg, now, cache, sends, lastSend, lastOk, cacheIoFailed>>

backupVars == <<svc, existing, lock, bpc, ti, hi, vi, archived, cause, errors, success_count,
                over_threshold, long_running_notified, staging, log, notified,
                notify_failed, result>>

allVars == <<resolved_services, apc, enabled_services, all_success_count, failure_count,
             all_errors, all_result, calls, returned>>

configVars == <<config, service, cpc, validation, loaded, resolved>>

senderVars == <<sender>>

hookVars == <<hk>>

cronVars == <<crontab, jobs, cron_calls>>

snapshotVars == <<listing, latest>>

vars == <<lockVars, notifyVars, senderVars, backupVars, allVars, configVars, hookVars,
          cronVars, snapshotVars>>

\* What the steps of one component leave alone: the other components.
notLock == <<notifyVars, senderVars, backupVars, allVars, configVars, hookVars, cronVars, snapshotVars>>
notNotify == <<lockVars, senderVars, backupVars, allVars, configVars, hookVars, cronVars, snapshotVars>>
notSender == <<lockVars, backupVars, allVars, configVars, hookVars, cronVars, snapshotVars>>
notBackup == <<lockVars, notifyVars, senderVars, allVars, configVars, hookVars, cronVars, snapshotVars>>
notAll == <<lockVars, notifyVars, senderVars, backupVars, configVars, hookVars, cronVars, snapshotVars>>
notConfig == <<lockVars, notifyVars, senderVars, backupVars, allVars, hookVars, cronVars, snapshotVars>>
notHooks == <<lockVars, notifyVars, senderVars, backupVars, allVars, configVars, cronVars, snapshotVars>>
notCron == <<lockVars, notifyVars, senderVars, backupVars, allVars, configVars, hookVars, snapshotVars>>
notSnapshots == <<lockVars, notifyVars, senderVars, backupVars, allVars, configVars, hookVars, cronVars>>

(***************************************************************************)
(* Bounds                                                                  *)
(***************************************************************************)
NumProcs == 3
MaxInodes == 3

MaxTicks == 3
MaxSends == 3

MaxTargets == 2
MaxHooks == 1
MaxHookList == 2
MaxCronCalls == 3
MaxSnapshots == 3
NumServices == 3

Procs == 1..NumProcs
Inodes == 1..MaxInodes

(***************************************************************************)
(* managers/notification.rs                                                *)
(***************************************************************************)

\* Clean up old entries (older than 24 hours): the fixed window, in seconds.
PruneWindowSecs == 86400

\* Granularity of the clock of the model, and a start well after the epoch
\* (SystemTime::now() of a running system), so that no subtraction saturates.
TickSecs == PruneWindowSecs \div 2
StartTime == 4 * PruneWindowSecs
EndTime == StartTime + MaxTicks * TickSecs

\* NotifyEvent
NotifyEvents == {"Failure", "Warning", "LongRunning", "Success"}

\* Option<String>: <<>> is None, <<d>> is Some(d).
None == <<>>
Some(d) == <<d>>

\* Configured rate_limit_minutes (default_rate_limit() is 60).
RateLimitChoices == {0, 60, 1440, 2880}

\* Configured notify_on sets (default_notify_on() is [Failure, Warning]).
NotifyOnChoices == {{"Failure", "Warning"}, {"Failure", "Success"}}

NotificationConfigs ==
    [webhook : BOOLEAN, notify_on : NotifyOnChoices, rate_limit_minutes : RateLimitChoices]

\* The notifications sent in the model: service, destination, event_type.
Notifications ==
    {[service_name |-> "web", destination |-> Some("A"), event_type |-> "Failure"],
     [service_name |-> "web", destination |-> None, event_type |-> "Failure"],
     [service_name |-> "web", destination |-> None, event_type |-> "Success"]}

\* Mutant of IsEnabled: the webhook URL is not looked at.
IsEnabledWithoutUrl(cfg, event) == event \in cfg.notify_on

\* is_enabled: a webhook URL is configured and notify_on contains the event.
IsEnabled(cfg, event) ==
    IF ~cfg.webhook THEN FALSE ELSE event \in cfg.notify_on

\* format!("{}:{}:{:?}", service_name, destination.unwrap_or("all"), event_type)
CacheKey(n) ==
    n.service_name \o ":"
        \o (IF n.destination = None THEN "all" ELSE n.destination[1]) \o ":"
        \o n.event_type

CacheKeys == {CacheKey(n) : n \in Notifications}

EmptyCache == [k \in {} |-> [last_sent |-> 0, count |-> 0]]

\* Mutant of IsRateLimited: an entry as old as the cooldown still suppresses.
IsRateLimitedInclusive(cfg, c, key, t) ==
    IF key \in DOMAIN c
    THEN t - c[key].last_sent <= cfg.rate_limit_minutes * 60
    ELSE FALSE

\* is_rate_limited: an entry exists and now - last_sent < rate_limit_minutes * 60.
IsRateLimited(cfg, c, key, t) ==
    IF key \in DOMAIN c
    THEN t - c[key].last_sent < cfg.rate_limit_minutes * 60
    ELSE FALSE

\* u64::saturating_sub
SaturatingSub(a, b) == IF a >= b THEN a - b ELSE 0

\* Mutant of Retain: an entry as old as the cutoff is kept.
RetainInclusive(c, cutoff) ==
    [k \in {j \in DOMAIN c : c[j].last_sent >= cutoff} |-> c[k]]

\* cache.entries.retain(|_, v| v.last_sent > cutoff)
Retain(c, cutoff) ==
    [k \in {j \in DOMAIN c : c[j].last_sent > cutoff} |-> c[k]]

\* update_cache: insert (now, count + 1 or 1), then prune entries older than 24 h.
UpdateCache(c, key, t) ==
    LET entry == [last_sent |-> t,
                  count |-> IF key \in DOMAIN c THEN c[key].count + 1 ELSE 1]
        inserted == [k \in (DOMAIN c) \cup {key} |-> IF k = key THEN entry ELSE c[k]]
    IN  Retain(inserted, SaturatingSub(t, PruneWindowSecs))

\* The processes that send at the same time, each for the service it backs up.
Senders == {"web", "db"}

\* A process that has not called send.
SenderIdle == [p \in Senders |-> [pc |-> "idle", pending |-> EmptyCache, at |-> 0]]

NoSend == [key |-> "", destination |-> None, event_type |-> "", at |-> 0, outcome |-> "none",
           result |-> "none", prevOk |-> -1]

NotifyInit ==
    /\ ncfg \in NotificationConfigs
    /\ now = StartTime
    /\ cache = EmptyCache
    /\ sends = 0
    /\ lastSend = NoSend
    /\ lastOk = [k \in CacheKeys |-> -1]
    /\ cacheIoFailed = FALSE
    /\ sender = SenderIdle

\* The notification manager untouched (the other specifications).
NotifyIdle ==
    /\ ncfg = [webhook |-> FALSE, notify_on |-> {"Failure", "Warning"}, rate_limit_minutes |-> 60]
    /\ now = StartTime
    /\ cache = EmptyCache
    /\ sends = 0
    /\ lastSend = NoSend
    /\ lastOk = [k \in CacheKeys |-> -1]
    /\ cacheIoFailed = FALSE
    /\ sender = SenderIdle

\* What one send call does, given what its environment does: `webhook` is
\* the transport's answer ("ok": a 2xx status; "fail": no connection or
\* another status) and `io` says which access to the cache file fails, if any.
\* The outcome is the place where send returns.
SendOutcome(cfg, c, n, t, webhook, io) ==
    IF ~IsEnabled(cfg, n.event_type) THEN "disabled"
    ELSE IF io = "load_fails" THEN "load_error"
    ELSE IF IsRateLimited(cfg, c, CacheKey(n), t) THEN "suppressed"
    ELSE IF webhook = "fail" THEN "failed"
    ELSE IF io = "save_fails" THEN "delivered_unsaved"
    ELSE "delivered"

\* The Result<()> send returns there.
SendResult(outcome) ==
    IF outcome \in {"disabled", "suppressed", "delivered"} THEN "Ok" ELSE "Err"

\* Mutant of CacheAfterSend: the cache is updated once the webhook was
\* attempted, whether or not the delivery was confirmed.
CacheAfterSendEager(c, key, t, outcome) ==
    IF outcome \in {"delivered", "failed"} THEN UpdateCache(c, key, t) ELSE c

\* The cache file after the call.
CacheAfterSend(c, key, t, outcome) ==
    IF outcome = "delivered" THEN UpdateCache(c, key, t) ELSE c

\* NotificationManager::send
Send(n, webhook, io) ==
    LET key == CacheKey(n)
        outcome == SendOutcome(ncfg, cache, n, now, webhook, io)
    IN  /\ sends < MaxSends
        /\ sends' = sends + 1
        /\ cache' = CacheAfterSend(cache, key, now, outcome)
        /\ lastSend' = [key |-> key, destination |-> n.destination,
                        event_type |-> n.event_type, at |-> now,
                        outcome |-> outcome, result |-> SendResult(outcome),
                        prevOk |-> lastOk[key]]
        /\ lastOk' = IF outcome \in {"delivered", "delivered_unsaved"}
                     THEN [lastOk EXCEPT ![key] = now]
                     ELSE lastOk
        /\ cacheIoFailed' = (cacheIoFailed \/ outcome \in {"load_error", "delivered_unsaved"})
        /\ UNCHANGED <<ncfg, now, notNotify>>

\* Time passes between two send calls.
Tick ==
    /\ now < EndTime
    /\ now' = now + TickSecs
    /\ UNCHANGED <<ncfg, cache, sends, lastSend, lastOk, cacheIoFailed, notNotify>>

\* Failure notifications of one service: for the service as a whole, for a
\* destination that is named "all", and for destination "A".
DestinationNotifications ==
    {[service_name |-> "web", destination |-> d, event_type |-> "Failure"] :
        d \in {None, Some("all"), Some("A")}}

\* send calls for the notifications of DestinationNotifications.
DestinationsNext ==
    \/ \E n \in DestinationNotifications, webhook \in {"ok", "fail"},
          io \in {"ok", "load_fails", "save_fails"} : Send(n, webhook, io)
    \/ Tick

NotifyNext ==
    \/ \E n \in Notifications, webhook \in {"ok", "fail"},
          io \in {"ok", "load_fails", "save_fails"} : Send(n, webhook, io)
    \/ Tick

\* The Failure notification of a run of service p, for all destinations.
SenderNotification(p) ==
    [service_name |-> p, destination |-> None, event_type |-> "Failure"]

\* NotificationManager instances of several processes (one per service being
\* backed up) over one cache file; Failure is enabled.
SendersInit ==
    /\ ncfg \in {cfg \in NotificationConfigs : IsEnabled(cfg, "Failure")}
    /\ now = StartTime
    /\ cache = EmptyCache
    /\ sends = 0
    /\ lastSend = NoSend
    /\ lastOk = [k \in CacheKeys |-> -1]
    /\ cacheIoFailed = FALSE
    /\ sender = SenderIdle

\* send of process p up to is_rate_limited: load_cache, then the age check.
CheckRateLimit(p) ==
    /\ sender[p].pc = "idle"
    /\ sender' = [sender EXCEPT ![p].pc =
                      IF IsRateLimited(ncfg, cache, CacheKey(SenderNotification(p)), now)
                      THEN "suppressed" ELSE "deliver"]
    /\ UNCHANGED <<notifyVars, notSender>>

\* send_webhook of process p: Err returns from send through `?`.
SendWebhook(p, webhook) ==
    /\ sender[p].pc = "deliver"
    /\ sender' = [sender EXCEPT ![p].pc = IF webhook = "ok" THEN "update" ELSE "failed"]
    /\ UNCHANGED <<notifyVars, notSender>>

\* update_cache of process p up to save_cache: load_cache, insert, retain.
LoadAndModify(p) ==
    /\ sender[p].pc = "update"
    /\ sender' = [sender EXCEPT ![p] =
                      [pc |-> "save",
                       pending |-> UpdateCache(cache, CacheKey(SenderNotification(p)), now),
                       at |-> now]]
    /\ UNCHANGED <<notifyVars, notSender>>

\* save_cache of process p: fs::write of the whole cache.
SaveCache(p) ==
    /\ sender[p].pc = "save"
    /\ cache' = sender[p].pending
    /\ sender' = [sender EXCEPT ![p].pc = "done"]
    /\ UNCHANGED <<ncfg, now, sends, lastSend, lastOk, cacheIoFailed, notSender>>

SendersNext ==
    \/ \E p \in Senders : CheckRateLimit(p)
    \/ \E p \in Senders, webhook \in {"ok", "fail"} : SendWebhook(p, webhook)
    \/ \E p \in Senders : LoadAndModify(p)
    \/ \E p \in Senders : SaveCache(p)
    \/ Tick

(***************************************************************************)
(* managers/backup.rs                                                      *)
(***************************************************************************)

\* config.destinations: the names the destination map holds.
DestinationNames == {"A", "B"}

\* Names a target list may hold; "X" is not in the destination map.
TargetNames == DestinationNames \cup {"X"}

\* The service of the run.
ServiceName == "web"

\* Sequences without repetition over S, of length at most n.
InjSeqs(S, n) ==
    {s \in UNION {[1..k -> S] : k \in 0..n} :
        \A i, j \in DOMAIN s : i # j => s[i] # s[j]}

\* The destinations of the map are alike: the one a target list names first
\* is called "A".
DestinationRank(d) == IF d = "A" THEN 1 ELSE 2

\* ResolvedServiceConfig::targets, up to the naming of the destinations:
\* lists without repetition in which the names of the map come in rank order
\* and the name missing from the map stands at any position.
TargetLists ==
    {s \in InjSeqs(TargetNames, MaxTargets) :
        /\ \A i, j \in DOMAIN s :
              (i < j /\ s[i] \in DestinationNames /\ s[j] \in DestinationNames)
                  => DestinationRank(s[i]) < DestinationRank(s[j])
        /\ ("B" \in {s[i] : i \in DOMAIN s}) => ("A" \in {s[i] : i \in DOMAIN s})}

\* Hook lists: each hook is its continue_on_error flag (default false).
HookLists == UNION {[1..k -> BOOLEAN] : k \in 0..MaxHooks}

\* BackupConfig::volumes
VolumeLists == {<<>>, <<"vol1">>}

\* BackupConfig::paths, and which of them exist on disk during the run.
PathNames == {"data"}

ResolvedServiceConfigs ==
    [enabled : BOOLEAN,
     targets : TargetLists,
     pre_backup_hooks : HookLists,
     post_backup_hooks : HookLists,
     volumes : VolumeLists,
     paths : SUBSET PathNames]

\* The context each failing step of backup_to_destination attaches: what
\* format!("{}", e) shows of the error.
ErrPreHooks == "Pre-backup hooks failed"
ErrTempDir == "Failed to create temporary directory"
ErrVolumes == "Failed to backup Docker volumes"
ErrInit == "Failed to initialize repository"
ErrBackup == "Failed to backup to restic"
ErrRetention == "Failed to apply retention policy"
ErrPostHooks == "Post-backup hooks failed"

NoResult == [kind |-> "none", why |-> "", errors |-> <<>>]

BackupInit ==
    /\ svc \in ResolvedServiceConfigs
    /\ existing \in SUBSET svc.paths
    /\ lock \in {"free", "other"}
    /\ bpc = "entry"
    /\ ti = 0
    /\ hi = 0
    /\ vi = 0
    /\ archived = <<>>
    /\ cause = ""
    /\ errors = <<>>
    /\ success_count = 0
    /\ over_threshold = FALSE
    /\ long_running_notified = FALSE
    /\ staging = FALSE
    /\ log = <<>>
    /\ notified = <<>>
    /\ notify_failed = FALSE
    /\ result = NoResult

\* No backup run (the other specifications).
BackupIdle ==
    /\ svc = [enabled |-> FALSE, targets |-> <<>>, pre_backup_hooks |-> <<>>,
              post_backup_hooks |-> <<>>, volumes |-> <<>>, paths |-> {}]
    /\ existing = {}
    /\ lock = "free"
    /\ bpc = "entry"
    /\ ti = 0
    /\ hi = 0
    /\ vi = 0
    /\ archived = <<>>
    /\ cause = ""
    /\ errors = <<>>
    /\ success_count = 0
    /\ over_threshold = FALSE
    /\ long_running_notified = FALSE
    /\ staging = FALSE
    /\ log = <<>>
    /\ notified = <<>>
    /\ notify_failed = FALSE
    /\ result = NoResult

\* The target being processed.
Target == svc.targets[ti]

\* An operation on the outside world, as the run performs it.
Event(op, arg) == [op |-> op, target |-> Target, arg |-> arg]

\* backup_to_destination returns Err with this context (`?`), after the
\* operations of `done`.
FailDestination(why, done) ==
    /\ cause' = why
    /\ log' = Append(done, Event("return", why))
    /\ bpc' = "dest_err"

\* backup_to_destination returns Ok(()), after the operations of `done`.
ReturnOk(done) ==
    /\ log' = Append(done, Event("return", "Ok"))
    /\ bpc' = "dest_ok"

\* Mutant of DropLock: the lock stays held when backup_service returns.
DropLockLeaks == "run"

\* `_lock` goes out of scope as backup_service returns (by `?`, bail! or
\* Ok): Drop for BackupLock removes the lock file and the File is closed,
\* which releases the flock.
DropLock == "free"

\* Mutant of CheckEnabled: a disabled service is backed up like any other.
CheckEnabledIgnored ==
    /\ bpc = "entry"
    /\ bpc' = "acquire"
    /\ UNCHANGED <<svc, existing, lock, ti, hi, vi, archived, cause, errors, success_count,
                   over_threshold, long_running_notified, staging, log, notified, notify_failed,
                   result, notBackup>>

\* backup_service, the disabled check: a disabled service is skipped.
CheckEnabled ==
    /\ bpc = "entry"
    /\ IF svc.enabled
       THEN /\ bpc' = "acquire"
            /\ UNCHANGED result
       ELSE /\ bpc' = "done"
            /\ result' = [kind |-> "Ok", why |-> "disabled", errors |-> <<>>]
    /\ UNCHANGED <<svc, existing, lock, ti, hi, vi, archived, cause, errors, success_count,
                   over_threshold, long_running_notified, staging, log, notified, notify_failed, notBackup>>

\* Mutant of AcquireLock: the run goes on although the lock is held.
AcquireLockIgnoresHolder ==
    /\ bpc = "acquire"
    /\ lock' = IF lock = "free" THEN "run" ELSE lock
    /\ bpc' = "loop"
    /\ UNCHANGED <<svc, existing, ti, hi, vi, archived, cause, errors, success_count,
                   over_threshold, long_running_notified, staging, log, notified,
                   result, notify_failed, notBackup>>

\* Mutant of AcquireLock: the guard is bound to `_` and dropped at once.
AcquireLockDroppedAtOnce ==
    /\ bpc = "acquire"
    /\ IF lock = "free"
       THEN /\ bpc' = "loop"
            /\ UNCHANGED result
       ELSE /\ bpc' = "done"
            /\ result' = [kind |-> "Err", why |-> "Failed to acquire lock", errors |-> <<>>]
    /\ UNCHANGED <<svc, existing, lock, ti, hi, vi, archived, cause, errors, success_count,
                   over_threshold, long_running_notified, staging, log, notified, notify_failed, notBackup>>

\* backup_service: BackupLock::acquire(service_name)?, then the timer and
\* the counters of the run.
AcquireLock ==
    /\ bpc = "acquire"
    /\ IF lock = "free"
       THEN /\ lock' = "run"
            /\ bpc' = "loop"
            /\ UNCHANGED result
       ELSE /\ bpc' = "done"
            /\ result' = [kind |-> "Err", why |-> "Failed to acquire lock", errors |-> <<>>]
            /\ UNCHANGED lock
    /\ UNCHANGED <<svc, existing, ti, hi, vi, archived, cause, errors, success_count,
                   over_threshold, long_running_notified, staging, log, notified, notify_failed, notBackup>>

\* start_time.elapsed() passes long_running_threshold_secs while the
\* destinations are being processed: after the timer was started and before
\* the last destination has returned. (Nothing compares the clock with the
\* threshold after the loop, so a later crossing is not a step of the run.)
TimePasses ==
    /\ bpc \notin {"entry", "acquire", "outcome", "done"}
    /\ ~(bpc = "loop" /\ ti = Len(svc.targets))
    /\ ~over_threshold
    /\ over_threshold' = TRUE
    /\ UNCHANGED <<svc, existing, lock, bpc, ti, hi, vi, archived, cause, errors, success_count,
                   long_running_notified, staging, log, notified, result, notify_failed, notBackup>>

\* What NotificationManager::send_failure / send_success / send_long_running
\* return to notify_*: Ok(()), or Err when the webhook or the cache file failed.
SendResults == {"Ok", "Err"}

\* notify_failure / notify_success / notify_long_running: an Err from the
\* manager is only warned about; the history keeps that one has happened.
NotifyFailed(sent) == notify_failed \/ sent = "Err"

\* Mutant of RunFails: a failed notification fails the run.
RunFailsOnNotification(errs, notificationFailed) == errs # <<>> \/ notificationFailed

\* backup_service bails if and only if a destination has recorded an error,
\* whatever the notifications returned.
RunFails(errs, notificationFailed) == errs # <<>>

\* The head of `for target_name in &service.targets`: the destination is
\* looked up (`?` returns from backup_service when the name is not in the
\* map, dropping the lock), the long-running check is made, and
\* backup_to_destination is entered.
NextTarget ==
    /\ bpc = "loop"
    /\ IF ti = Len(svc.targets)
       THEN /\ bpc' = "outcome"
            /\ UNCHANGED <<lock, ti, hi, long_running_notified, log, notified,
                           notify_failed, result>>
       ELSE IF svc.targets[ti + 1] \notin DestinationNames
       THEN /\ bpc' = "done"
            /\ lock' = DropLock
            /\ result' = [kind |-> "Err", why |-> "Destination not found",
                          errors |-> <<svc.targets[ti + 1]>>]
            /\ UNCHANGED <<ti, hi, long_running_notified, log, notified, notify_failed>>
       ELSE /\ ti' = ti + 1
            /\ IF ~long_running_notified /\ over_threshold
               THEN /\ notified' = Append(notified,
                                     [event_type |-> "LongRunning", service_name |-> ServiceName,
                                      destination |-> Some(svc.targets[ti + 1]), error |-> None])
                    /\ long_running_notified' = TRUE
                    /\ \E sent \in SendResults : notify_failed' = NotifyFailed(sent)
               ELSE UNCHANGED <<notified, long_running_notified, notify_failed>>
            /\ log' = Append(log, [op |-> "backup_to_destination",
                                    target |-> svc.targets[ti + 1], arg |-> ""])
            /\ hi' = 1
            /\ bpc' = "pre_hooks"
            /\ UNCHANGED <<lock, result>>
    /\ UNCHANGED <<svc, existing, vi, archived, cause, errors, success_count,
                   over_threshold, staging, notBackup>>

\* run_hook: the hook fails the enclosing operation when its command fails
\* and continue_on_error is false.
HookAborts(continue_on_error, outcome) == outcome = "fail" /\ ~continue_on_error

\* run_pre_hooks, one hook (run_hook) per step; after the last, the
\* temporary directory is next.
RunPreHook(outcome) ==
    /\ bpc = "pre_hooks"
    /\ IF hi > Len(svc.pre_backup_hooks)
       THEN /\ bpc' = "temp_dir"
            /\ UNCHANGED <<log, hi, cause>>
       ELSE IF HookAborts(svc.pre_backup_hooks[hi], outcome)
            THEN /\ FailDestination(ErrPreHooks, Append(log, Event("pre_hook", hi)))
                 /\ UNCHANGED hi
            ELSE /\ log' = Append(log, Event("pre_hook", hi))
                 /\ hi' = hi + 1
                 /\ UNCHANGED <<bpc, cause>>
    /\ UNCHANGED <<svc, existing, lock, ti, vi, archived, errors, success_count,
                   over_threshold, long_running_notified, staging, notified, result, notify_failed, notBackup>>

\* fs::create_dir_all(&temp_dir)
CreateTempDir(outcome) ==
    /\ bpc = "temp_dir"
    /\ IF outcome = "ok"
       THEN /\ staging' = TRUE
            /\ vi' = 1
            /\ archived' = <<>>
            /\ bpc' = "volumes_exist"
            /\ UNCHANGED <<cause, log>>
       ELSE /\ FailDestination(ErrTempDir, log)
            /\ UNCHANGED <<staging, vi, archived>>
    /\ UNCHANGED <<svc, existing, lock, ti, hi, errors, success_count,
                   over_threshold, long_running_notified, notified, result, notify_failed, notBackup>>

\* backup_volumes, first loop: docker::volume_exists for every volume.
\* "no" (the volume is not listed) and "error" (docker failed) both fail.
VolumeExists(outcome) ==
    /\ bpc = "volumes_exist"
    /\ IF vi > Len(svc.volumes)
       THEN /\ vi' = 1
            /\ bpc' = "volumes_archive"
            /\ UNCHANGED <<log, cause>>
       ELSE IF outcome = "yes"
            THEN /\ log' = Append(log, Event("volume_exists", svc.volumes[vi]))
                 /\ vi' = vi + 1
                 /\ UNCHANGED <<bpc, cause>>
            ELSE /\ FailDestination(ErrVolumes, Append(log, Event("volume_exists", svc.volumes[vi])))
                 /\ UNCHANGED vi
    /\ UNCHANGED <<svc, existing, lock, ti, hi, archived, errors, success_count,
                   over_threshold, long_running_notified, staging, notified, result, notify_failed, notBackup>>

\* backup_volumes, second loop: docker::archive_volume for every volume.
ArchiveVolume(outcome) ==
    /\ bpc = "volumes_archive"
    /\ IF vi > Len(svc.volumes)
       THEN /\ bpc' = "collect"
            /\ UNCHANGED <<log, cause, vi, archived>>
       ELSE IF outcome = "ok"
            THEN /\ log' = Append(log, Event("archive_volume", svc.volumes[vi]))
                 /\ archived' = Append(archived, svc.volumes[vi])
                 /\ vi' = vi + 1
                 /\ UNCHANGED <<bpc, cause>>
            ELSE /\ FailDestination(ErrVolumes, Append(log, Event("archive_volume", svc.volumes[vi])))
                 /\ UNCHANGED <<vi, archived>>
    /\ UNCHANGED <<svc, existing, lock, ti, hi, errors, success_count,
                   over_threshold, long_running_notified, staging, notified, result, notify_failed, notBackup>>

\* collect_paths: the configured paths that exist; with the volume archives
\* they are the paths to back up.
PathsToBackup == existing \cup {archived[i] : i \in DOMAIN archived}

\* Mutant of NothingToBackup: the empty check is missing.
NothingToBackupUnchecked(paths) == FALSE

\* paths_to_backup.is_empty()
NothingToBackup(paths) == paths = {}

\* collect_paths and the empty check: with nothing to back up
\* backup_to_destination returns Ok(()) at once.
CollectPaths ==
    /\ bpc = "collect"
    /\ IF NothingToBackup(PathsToBackup)
       THEN ReturnOk(log)
       ELSE bpc' = "init" /\ UNCHANGED log
    /\ UNCHANGED <<svc, existing, lock, ti, hi, vi, archived, cause, errors, success_count,
                   over_threshold, long_running_notified, staging, notified, result, notify_failed, notBackup>>

\* Mutant of InitSucceeds: only exit status 0 is a success.
InitSucceedsOnExitZero(outcome) == outcome = "ok"

\* restic::init_repository: a failed `restic init` whose stderr says
\* "already initialized" or "already exists" is a success.
InitSucceeds(outcome) == outcome \in {"ok", "already_initialized"}

\* restic::init_repository(&env, timeout).context("Failed to initialize repository")?
InitRepository(outcome) ==
    /\ bpc = "init"
    /\ IF InitSucceeds(outcome)
       THEN /\ log' = Append(log, Event("init", outcome))
            /\ bpc' = "backup"
            /\ UNCHANGED cause
       ELSE FailDestination(ErrInit, Append(log, Event("init", outcome)))
    /\ UNCHANGED <<svc, existing, lock, ti, hi, vi, archived, errors, success_count,
                   over_threshold, long_running_notified, staging, notified, result, notify_failed, notBackup>>

\* restic::backup: a non-zero exit, a failure to start and a timeout fail.
ResticBackup(outcome) ==
    /\ bpc = "backup"
    /\ IF outcome = "ok"
       THEN /\ log' = Append(log, Event("backup", ""))
            /\ bpc' = "retention"
            /\ UNCHANGED cause
       ELSE FailDestination(ErrBackup, Append(log, Event("backup", "")))
    /\ UNCHANGED <<svc, existing, lock, ti, hi, vi, archived, errors, success_count,
                   over_threshold, long_running_notified, staging, notified, result, notify_failed, notBackup>>

\* restic::apply_retention returns Ok when `restic forget` ran, whatever its
\* exit status ("nonzero" is only warned about), and Err when it could not
\* be started or timed out.
RetentionSucceeds(outcome) == outcome \in {"ok", "nonzero"}

\* restic::apply_retention(..).context("Failed to apply retention policy")?
ApplyRetention(outcome) ==
    /\ bpc = "retention"
    /\ IF RetentionSucceeds(outcome)
       THEN /\ log' = Append(log, Event("forget", outcome))
            /\ bpc' = "cleanup"
            /\ UNCHANGED cause
       ELSE FailDestination(ErrRetention, Append(log, Event("forget", outcome)))
    /\ UNCHANGED <<svc, existing, lock, ti, hi, vi, archived, errors, success_count,
                   over_threshold, long_running_notified, staging, notified, result, notify_failed, notBackup>>

\* fs::remove_dir_all(&temp_dir): a failure is only warned about (the log
\* keeps the failures).
CleanupTempDir(outcome) ==
    /\ bpc = "cleanup"
    /\ staging' = IF outcome = "ok" THEN FALSE ELSE staging
    /\ log' = IF outcome = "ok" THEN log ELSE Append(log, Event("remove_dir_all", outcome))
    /\ hi' = 1
    /\ bpc' = "post_hooks"
    /\ UNCHANGED <<svc, existing, lock, ti, vi, archived, cause, errors, success_count,
                   over_threshold, long_running_notified, notified, result, notify_failed, notBackup>>

\* run_post_hooks, one hook per step; after the last,
\* backup_to_destination returns Ok(()).
RunPostHook(outcome) ==
    /\ bpc = "post_hooks"
    /\ IF hi > Len(svc.post_backup_hooks)
       THEN /\ ReturnOk(log)
            /\ UNCHANGED <<hi, cause>>
       ELSE IF HookAborts(svc.post_backup_hooks[hi], outcome)
            THEN /\ FailDestination(ErrPostHooks, Append(log, Event("post_hook", hi)))
                 /\ UNCHANGED hi
            ELSE /\ log' = Append(log, Event("post_hook", hi))
                 /\ hi' = hi + 1
                 /\ UNCHANGED <<bpc, cause>>
    /\ UNCHANGED <<svc, existing, lock, ti, vi, archived, errors, success_count,
                   over_threshold, long_running_notified, staging, notified, result, notify_failed, notBackup>>

\* backup_service, the Ok arm of the match.
DestinationOk ==
    /\ bpc = "dest_ok"
    /\ success_count' = success_count + 1
    /\ bpc' = "loop"
    /\ UNCHANGED <<svc, existing, lock, ti, hi, vi, archived, cause, errors, log,
                   over_threshold, long_running_notified, staging, notified, result, notify_failed, notBackup>>

\* What restic::unlock_repository returns: Ok when `restic unlock` ran
\* (a non-zero exit is only warned about), Err when it could not be started
\* or timed out.
UnlockResults == {"Ok", "Err"}

\* Mutant of DestinationErr: an Err of unlock_repository replaces the
\* recorded error and ends the loop.
DestinationErrUnlockFatal(unlocked) ==
    /\ bpc = "dest_err"
    /\ errors' = Append(errors, [target |-> Target,
                                  error |-> IF unlocked = "Err" THEN "Unlock failed" ELSE cause])
    /\ notified' = Append(notified,
                     [event_type |-> "Failure", service_name |-> ServiceName,
                      destination |-> Some(Target), error |-> Some(cause)])
    /\ \E sent \in SendResults : notify_failed' = NotifyFailed(sent)
    /\ log' = Append(log, Event("unlock", unlocked))
    /\ bpc' = IF unlocked = "Err" THEN "outcome" ELSE "loop"
    /\ UNCHANGED <<svc, existing, lock, ti, hi, vi, archived, cause, success_count,
                   over_threshold, long_running_notified, staging, result, notBackup>>

\* backup_service, the Err arm of the match: the error is recorded as
\* "<target>: <error>", the failure notification is sent, and
\* restic::unlock_repository is tried (its Err is only warned about).
DestinationErr(unlocked) ==
    /\ bpc = "dest_err"
    /\ errors' = Append(errors, [target |-> Target, error |-> cause])
    /\ notified' = Append(notified,
                     [event_type |-> "Failure", service_name |-> ServiceName,
                      destination |-> Some(Target), error |-> Some(cause)])
    /\ \E sent \in SendResults : notify_failed' = NotifyFailed(sent)
    /\ log' = Append(log, Event("unlock", unlocked))
    /\ bpc' = "loop"
    /\ UNCHANGED <<svc, existing, lock, ti, hi, vi, archived, cause, success_count,
                   over_threshold, long_running_notified, staging, result, notBackup>>

\* The success notification is sent if all destinations succeeded.
SendsSuccess(errs, successes) == errs = <<>> /\ successes > 0

\* backup_service after the loop: the success notification, the result
\* (bail! with every recorded error when there is one), and the lock is
\* dropped as the function returns.
Outcome ==
    /\ bpc = "outcome"
    /\ notified' = IF SendsSuccess(errors, success_count)
                   THEN Append(notified,
                          [event_type |-> "Success", service_name |-> ServiceName,
                           destination |-> None, error |-> None])
                   ELSE notified
    /\ IF SendsSuccess(errors, success_count)
       THEN \E sent \in SendResults : notify_failed' = NotifyFailed(sent)
       ELSE UNCHANGED notify_failed
    /\ result' = IF RunFails(errors, notify_failed')
                 THEN [kind |-> "Err", why |-> "Backup failed", errors |-> errors]
                 ELSE [kind |-> "Ok", why |-> "", errors |-> <<>>]
    /\ lock' = DropLock
    /\ bpc' = "done"
    /\ UNCHANGED <<svc, existing, ti, hi, vi, archived, cause, errors, success_count,
                   over_threshold, long_running_notified, staging, log, notBackup>>

\* The steps of a run other than the Err arm of the match.
BackupSteps ==
    \/ CheckEnabled
    \/ AcquireLock
    \/ TimePasses
    \/ NextTarget
    \/ \E o \in {"ok", "fail"} : RunPreHook(o)
    \/ \E o \in {"ok", "fail"} : CreateTempDir(o)
    \/ \E o \in {"yes", "no", "error"} : VolumeExists(o)
    \/ \E o \in {"ok", "fail"} : ArchiveVolume(o)
    \/ CollectPaths
    \/ \E o \in {"ok", "error"} : InitRepository(o)
    \/ \E o \in {"ok", "fail"} : ResticBackup(o)
    \/ \E o \in {"ok", "nonzero", "error"} : ApplyRetention(o)
    \/ \E o \in {"ok", "fail"} : CleanupTempDir(o)
    \/ \E o \in {"ok", "fail"} : RunPostHook(o)
    \/ DestinationOk
    \/ Outcome

\* A run in which every unlock_repository returns Ok and no repository
\* exists before its init.
BackupNext ==
    \/ BackupSteps
    \/ DestinationErr("Ok")

\* A run in which unlock_repository may return Err and `restic init` may
\* find the repository already initialized.
UnlockNext ==
    \/ BackupSteps
    \/ InitRepository("already_initialized")
    \/ \E unlocked \in UnlockResults : DestinationErr(unlocked)

\* Runs of an enabled service without volumes and post-backup hooks whose
\* paths exist, with the lock free.
UnlockInit ==
    /\ svc \in {s \in ResolvedServiceConfigs :
                  /\ s.enabled
                  /\ s.volumes = <<>>
                  /\ s.post_backup_hooks = <<>>
                  /\ s.paths = PathNames}
    /\ existing = svc.paths
    /\ lock = "free"
    /\ bpc = "entry"
    /\ ti = 0
    /\ hi = 0
    /\ vi = 0
    /\ archived = <<>>
    /\ cause = ""
    /\ errors = <<>>
    /\ success_count = 0
    /\ over_threshold = FALSE
    /\ long_running_notified = FALSE
    /\ staging = FALSE
    /\ log = <<>>
    /\ notified = <<>>
    /\ notify_failed = FALSE
    /\ result = NoResult

(***************************************************************************)
(* utils/locker.rs                                                         *)
(***************************************************************************)

\* State before any process touched the lock path.
LockInit ==
    /\ lpc = [p \in Procs |-> "idle"]
    /\ lfd = [p \in Procs |-> 0]
    /\ pathInode = 0
    /\ flockOwner = [i \in Inodes |-> 0]
    /\ inodesUsed = 0
    /\ crashedHolding = {}

\* OpenOptions::new().read(true).write(true).create(true).open(&lock_path):
\* opens the file the path names, creating a fresh one when the path is absent.
OpenLockFile(p) ==
    /\ lpc[p] = "idle"
    /\ IF pathInode # 0
       THEN /\ lfd' = [lfd EXCEPT ![p] = pathInode]
            /\ UNCHANGED <<pathInode, inodesUsed>>
       ELSE /\ inodesUsed < MaxInodes
            /\ inodesUsed' = inodesUsed + 1
            /\ pathInode' = inodesUsed + 1
            /\ lfd' = [lfd EXCEPT ![p] = inodesUsed + 1]
    /\ lpc' = [lpc EXCEPT ![p] = "opened"]
    /\ UNCHANGED <<flockOwner, crashedHolding, notLock>>

\* try_write(): flock(LOCK_EX | LOCK_NB) on the opened file. On success the
\* guard is stored and acquire returns the BackupLock. On failure `?` returns
\* the error: the boxed File is dropped (closed), no BackupLock exists and so
\* no Drop for BackupLock runs.
TryWrite(p) ==
    /\ lpc[p] = "opened"
    /\ IF flockOwner[lfd[p]] = 0
       THEN /\ flockOwner' = [flockOwner EXCEPT ![lfd[p]] = p]
            /\ lpc' = [lpc EXCEPT ![p] = "holding"]
            /\ UNCHANGED lfd
       ELSE /\ lpc' = [lpc EXCEPT ![p] = "idle"]
            /\ lfd' = [lfd EXCEPT ![p] = 0]
            /\ UNCHANGED flockOwner
    /\ UNCHANGED <<pathInode, inodesUsed, crashedHolding, notLock>>

\* Drop for BackupLock, body: std::fs::remove_file(&self.lock_path), best
\* effort. It unlinks whatever file the path names at that moment.
RemoveLockFile(p) ==
    /\ lpc[p] = "holding"
    /\ pathInode' = 0
    /\ lpc' = [lpc EXCEPT ![p] = "dropping"]
    /\ UNCHANGED <<lfd, flockOwner, inodesUsed, crashedHolding, notLock>>

\* Drop for BackupLock, fields (after the body): the File is closed and the
\* flock on its inode is released.
CloseLockFile(p) ==
    /\ lpc[p] = "dropping"
    /\ flockOwner' = [flockOwner EXCEPT ![lfd[p]] = 0]
    /\ lfd' = [lfd EXCEPT ![p] = 0]
    /\ lpc' = [lpc EXCEPT ![p] = "idle"]
    /\ UNCHANGED <<pathInode, inodesUsed, crashedHolding, notLock>>

\* Mutant of Crash: the flock of a dead process stays held.
CrashKeepsFlock(p) ==
    /\ lpc[p] \in {"opened", "holding", "dropping"}
    /\ lpc' = [lpc EXCEPT ![p] = "crashed"]
    /\ lfd' = [lfd EXCEPT ![p] = 0]
    /\ crashedHolding' = crashedHolding \cup {i \in Inodes : flockOwner[i] = p}
    /\ UNCHANGED <<flockOwner, pathInode, inodesUsed, notLock>>

\* The process terminates abnormally (killed, panic = abort, power loss of
\* the process only): no Drop runs, so the lock file stays where it is; the
\* operating system closes the process's descriptors, which releases the
\* flock it held. The process takes no further step.
Crash(p) ==
    /\ lpc[p] \in {"opened", "holding", "dropping"}
    /\ lpc' = [lpc EXCEPT ![p] = "crashed"]
    /\ lfd' = [lfd EXCEPT ![p] = 0]
    /\ flockOwner' = [i \in Inodes |-> IF flockOwner[i] = p THEN 0 ELSE flockOwner[i]]
    /\ crashedHolding' = crashedHolding \cup {i \in Inodes : flockOwner[i] = p}
    /\ UNCHANGED <<pathInode, inodesUsed, notLock>>

LockNext ==
    \E p \in Procs :
        \/ OpenLockFile(p)
        \/ TryWrite(p)
        \/ RemoveLockFile(p)
        \/ CloseLockFile(p)
        \/ Crash(p)

(***************************************************************************)
(* managers/backup.rs: backup_all                                          *)
(***************************************************************************)

\* The keys of resolved_services (the services, by number).
Services == 1..NumServices

\* What one backup_service call returns: Ok(()) or an error, by its message.
ServiceOutcomes == {"Ok", "Failed to acquire lock", "Backup failed"}

NoAllResult == [kind |-> "none", failure_count |-> 0, errors |-> <<>>]

AllInit ==
    /\ resolved_services \in [Services -> BOOLEAN]
    /\ apc = "entry"
    /\ enabled_services = {}
    /\ all_success_count = 0
    /\ failure_count = 0
    /\ all_errors = <<>>
    /\ all_result = NoAllResult
    /\ calls = <<>>
    /\ returned = [s \in Services |-> "none"]

\* No backup_all run (the other specifications).
AllIdle ==
    /\ resolved_services = [s \in Services |-> FALSE]
    /\ apc = "entry"
    /\ enabled_services = {}
    /\ all_success_count = 0
    /\ failure_count = 0
    /\ all_errors = <<>>
    /\ all_result = NoAllResult
    /\ calls = <<>>
    /\ returned = [s \in Services |-> "none"]

\* Mutant of EnabledServices: the filter on `enabled` is missing.
EnabledServicesUnfiltered(services) == DOMAIN services

\* resolved_services.iter().filter(|(_, service)| service.enabled)
EnabledServices(services) == {s \in DOMAIN services : services[s]}

\* backup_all up to the loop: the enabled services are collected; with none
\* it returns Ok(()) at once.
CollectEnabled ==
    /\ apc = "entry"
    /\ enabled_services' = EnabledServices(resolved_services)
    /\ IF EnabledServices(resolved_services) = {}
       THEN /\ apc' = "done"
            /\ all_result' = [kind |-> "Ok", failure_count |-> 0, errors |-> <<>>]
       ELSE /\ apc' = "loop"
            /\ UNCHANGED all_result
    /\ UNCHANGED <<resolved_services, all_success_count, failure_count, all_errors,
                   calls, returned, notAll>>

\* One iteration of `for (name, _) in enabled_services` (a HashMap: any
\* order): backup_service(name) and the match on what it returned.
BackupOneService(name, outcome) ==
    /\ apc = "loop"
    /\ name \in enabled_services
    /\ enabled_services' = enabled_services \ {name}
    /\ calls' = Append(calls, name)
    /\ returned' = [returned EXCEPT ![name] = outcome]
    /\ IF outcome = "Ok"
       THEN /\ all_success_count' = all_success_count + 1
            /\ UNCHANGED <<failure_count, all_errors>>
       ELSE /\ failure_count' = failure_count + 1
            /\ all_errors' = Append(all_errors, [service |-> name, error |-> outcome])
            /\ UNCHANGED all_success_count
    /\ UNCHANGED <<resolved_services, apc, all_result, notAll>>

\* backup_all after the loop: the summary, and bail! with every recorded
\* error when a service failed.
Summary ==
    /\ apc = "loop"
    /\ enabled_services = {}
    /\ all_result' = IF failure_count > 0
                     THEN [kind |-> "Err", failure_count |-> failure_count,
                           errors |-> all_errors]
                     ELSE [kind |-> "Ok", failure_count |-> 0, errors |-> <<>>]
    /\ apc' = "done"
    /\ UNCHANGED <<resolved_services, enabled_services, all_success_count, failure_count,
                   all_errors, calls, returned, notAll>>

AllNext ==
    \/ CollectEnabled
    \/ \E name \in Services, outcome \in ServiceOutcomes : BackupOneService(name, outcome)
    \/ Summary

(***************************************************************************)
(* config/loader.rs: validate_service, validate_config, resolve_service    *)
(***************************************************************************)

\* The fields resolved by the chain service > profile > global.
ChainFields == {"timeout_seconds", "retention_daily", "retention_weekly",
                "retention_monthly", "retention_yearly"}

\* The value each tier gives a field when it sets it: all different, so
\* that a value taken from the wrong tier or the wrong field shows.
ServiceValues == [timeout_seconds |-> 11, retention_daily |-> 12, retention_weekly |-> 13,
                  retention_monthly |-> 14, retention_yearly |-> 15]
ProfileValues == [timeout_seconds |-> 21, retention_daily |-> 22, retention_weekly |-> 23,
                  retention_monthly |-> 24, retention_yearly |-> 25]

\* GlobalConfig: default_timeout_seconds and the four retention counts.
GlobalConfig == [default_timeout_seconds |-> 31, retention_daily |-> 32,
                 retention_weekly |-> 33, retention_monthly |-> 34, retention_yearly |-> 35]

\* Schedule strings, character by character: five fields; four; six; five
\* fields with a run of blanks, a tab and blanks around them.
Schedules ==
    {<<"0", " ", "2", " ", "*", " ", "*", " ", "*">>,
     <<"0", " ", "2", " ", "*", " ", "*">>,
     <<"0", " ", "2", " ", "*", " ", "*", " ", "*", " ", "*">>,
     <<" ", "0", " ", " ", "2", "\t", "*", " ", "*", " ", "*", " ">>}

\* Target lists of a service or a profile; "X" is not a destination.
ConfigTargetLists == {<<>>, <<"A">>, <<"A", "X">>}

\* Option<u32> / Option<u64> of a field: unset, or the tier's value.
OptionOf(value) == {None, Some(value)}

ServiceConfigs ==
    [profile : {None, Some("p1")},
     schedule : Schedules,
     targets : ConfigTargetLists,
     timeout_seconds : OptionOf(ServiceValues.timeout_seconds),
     retention_daily : OptionOf(ServiceValues.retention_daily),
     retention_weekly : OptionOf(ServiceValues.retention_weekly),
     retention_monthly : OptionOf(ServiceValues.retention_monthly),
     retention_yearly : OptionOf(ServiceValues.retention_yearly),
     notify_on : {<<>>}]

\* Event lists of the three tiers, pairwise different where not empty.
ServiceNotifyOn == {<<>>, <<"Success">>, <<"Failure", "LongRunning">>}

ProfileNotifyOn == {<<>>, <<"Warning">>, <<"Success", "Failure">>}

\* default_notify_on, no event, or one event.
GlobalNotifyOn == {<<"Failure", "Warning">>, <<>>, <<"LongRunning">>}

\* Services that set none of the optional fields and any notify_on list.
NotifyOnServiceConfigs ==
    [profile : {None, Some("p1")},
     schedule : {<<"0", " ", "2", " ", "*", " ", "*", " ", "*">>},
     targets : ConfigTargetLists,
     timeout_seconds : {None},
     retention_daily : {None},
     retention_weekly : {None},
     retention_monthly : {None},
     retention_yearly : {None},
     notify_on : ServiceNotifyOn]

Profiles ==
    [targets : ConfigTargetLists,
     timeout_seconds : OptionOf(ProfileValues.timeout_seconds),
     retention_daily : OptionOf(ProfileValues.retention_daily),
     retention_weekly : OptionOf(ProfileValues.retention_weekly),
     retention_monthly : OptionOf(ProfileValues.retention_monthly),
     retention_yearly : OptionOf(ProfileValues.retention_yearly),
     notify_on : {<<>>}]

\* Profiles that set none of the optional fields and any notify_on list.
NotifyOnProfiles ==
    [targets : ConfigTargetLists,
     timeout_seconds : {None},
     retention_daily : {None},
     retention_weekly : {None},
     retention_monthly : {None},
     retention_yearly : {None},
     notify_on : ProfileNotifyOn]

\* Config::profiles: no profile at all, or the profile "p1".
ProfileMaps == {<<>>} \cup {[n \in {"p1"} |-> p] : p \in Profiles}

NotifyOnProfileMaps == {<<>>} \cup {[n \in {"p1"} |-> p] : p \in NotifyOnProfiles}

\* A second service of the configuration, valid or with a bad schedule.
OtherServices ==
    {[profile |-> None, schedule |-> s, targets |-> <<"A">>,
      timeout_seconds |-> None, retention_daily |-> None, retention_weekly |-> None,
      retention_monthly |-> None, retention_yearly |-> None, notify_on |-> <<>>] :
        s \in {<<"0", " ", "2", " ", "*", " ", "*", " ", "*">>, <<"@", "d", "a", "i", "l", "y">>}}

\* The configurations: the global checks of validate_config pass (the
\* password file and docker_base exist, destinations is not empty).
Configs ==
    [global : {GlobalConfig},
     destinations : {DestinationNames},
     profiles : ProfileMaps,
     notifications : {[notify_on |-> <<"Failure", "Warning">>]},
     other : OtherServices]

\* The configurations that differ in their notify_on lists.
NotifyOnConfigs ==
    [global : {GlobalConfig},
     destinations : {DestinationNames},
     profiles : NotifyOnProfileMaps,
     notifications : [notify_on : GlobalNotifyOn],
     other : OtherServices]

NoAnswer == [kind |-> "none"]

ConfigInit ==
    /\ config \in Configs
    /\ service \in ServiceConfigs
    /\ cpc = "parsed"
    /\ validation = NoAnswer
    /\ loaded = NoAnswer
    /\ resolved = NoAnswer

\* The same program, started on the configurations of NotifyOnConfigs.
NotifyOnInit ==
    /\ config \in NotifyOnConfigs
    /\ service \in NotifyOnServiceConfigs
    /\ cpc = "parsed"
    /\ validation = NoAnswer
    /\ loaded = NoAnswer
    /\ resolved = NoAnswer

\* No configuration work (the other specifications).
ConfigIdle ==
    /\ config = [global |-> GlobalConfig, destinations |-> DestinationNames,
                 profiles |-> <<>>,
                 notifications |-> [notify_on |-> <<"Failure", "Warning">>],
                 other |-> CHOOSE o \in OtherServices : TRUE]
    /\ service = CHOOSE s \in OtherServices : TRUE
    /\ cpc = "parsed"
    /\ validation = NoAnswer
    /\ loaded = NoAnswer
    /\ resolved = NoAnswer

\* char::is_whitespace, for the characters of Schedules.
IsWhitespace(c) == c \in {" ", "\t"}

\* Mutant of SplitWhitespaceCount: split(' '), one field more than blanks.
SplitOnBlankCount(s) == Cardinality({i \in DOMAIN s : s[i] = " "}) + 1

\* schedule.split_whitespace().count(): the number of maximal runs of
\* characters that are not whitespace.
SplitWhitespaceCount(s) ==
    Cardinality({i \in DOMAIN s : ~IsWhitespace(s[i]) /\ (i = 1 \/ IsWhitespace(s[i - 1]))})

\* config.profiles.get(profile_name)
GetProfile(cfg, profile_name) ==
    IF profile_name \in DOMAIN cfg.profiles THEN Some(cfg.profiles[profile_name]) ELSE None

\* get_effective_targets
GetEffectiveTargets(svcCfg, cfg) ==
    IF svcCfg.targets # <<>> THEN svcCfg.targets
    ELSE IF svcCfg.profile # None /\ GetProfile(cfg, svcCfg.profile[1]) # None
         THEN GetProfile(cfg, svcCfg.profile[1])[1].targets
         ELSE <<>>

\* The first target, in list order, that is not a key of config.destinations
\* (0: none).
FirstMissingTarget(targets, cfg) ==
    IF \A i \in DOMAIN targets : targets[i] \in cfg.destinations THEN 0
    ELSE CHOOSE i \in DOMAIN targets :
            /\ targets[i] \notin cfg.destinations
            /\ \A j \in 1..(i - 1) : targets[j] \in cfg.destinations

\* validate_service: the profile, then the effective targets, then the
\* schedule; the first failing check is the error returned.
ValidateService(svcCfg, cfg) ==
    IF svcCfg.profile # None /\ svcCfg.profile[1] \notin DOMAIN cfg.profiles
    THEN [kind |-> "Err", error |-> "ProfileNotFound"]
    ELSE IF FirstMissingTarget(GetEffectiveTargets(svcCfg, cfg), cfg) # 0
    THEN [kind |-> "Err", error |-> "DestinationNotFound"]
    ELSE IF SplitWhitespaceCount(svcCfg.schedule) # 5
    THEN [kind |-> "Err", error |-> "ValidationError"]
    ELSE [kind |-> "Ok"]

\* validate_config, the loop `for (name, service) in &config.services`
\* (a HashMap: any order) with `?`: Ok when every service validates, else
\* the error of a rejected service.
ValidateConfig(cfg, svcCfg) ==
    {r \in {ValidateService(svcCfg, cfg), ValidateService(cfg.other, cfg)} :
        \/ r.kind = "Err"
        \/ /\ ValidateService(svcCfg, cfg).kind = "Ok"
           /\ ValidateService(cfg.other, cfg).kind = "Ok"}

\* Mutant of OrElseUnwrapOr: the profile's value wins over the service's.
ProfileFirstUnwrapOr(serviceValue, profile, field, globalValue) ==
    IF profile # None /\ profile[1][field] # None THEN profile[1][field][1]
    ELSE IF serviceValue # None THEN serviceValue[1]
    ELSE globalValue

\* service.<field>.or_else(|| profile.and_then(|p| p.<field>)).unwrap_or(global)
OrElseUnwrapOr(serviceValue, profile, field, globalValue) ==
    IF serviceValue # None THEN serviceValue[1]
    ELSE IF profile # None /\ profile[1][field] # None THEN profile[1][field][1]
    ELSE globalValue

\* resolve_service
\* Mutant of ResolveNotifyOn: the lists of the three tiers are merged.
ResolveNotifyOnMerged(svcCfg, profile, cfg) ==
    svcCfg.notify_on \o (IF profile # None THEN profile[1].notify_on ELSE <<>>)
        \o cfg.notifications.notify_on

\* resolve_service, "Resolve notify_on (service > profile > global)".
ResolveNotifyOn(svcCfg, profile, cfg) ==
    IF svcCfg.notify_on # <<>> THEN svcCfg.notify_on
    ELSE IF profile # None
         THEN IF profile[1].notify_on # <<>> THEN profile[1].notify_on
              ELSE cfg.notifications.notify_on
         ELSE cfg.notifications.notify_on

ResolveService(svcCfg, cfg) ==
    LET profile == IF svcCfg.profile = None THEN None
                   ELSE GetProfile(cfg, svcCfg.profile[1])
    IN  IF svcCfg.targets = <<>> /\ profile = None
        THEN [kind |-> "Err", error |-> "ValidationError"]
        ELSE [kind |-> "Ok",
              targets |-> IF svcCfg.targets # <<>> THEN svcCfg.targets
                          ELSE profile[1].targets,
              timeout_seconds |->
                  OrElseUnwrapOr(svcCfg.timeout_seconds, profile, "timeout_seconds",
                                 cfg.global.default_timeout_seconds),
              retention |->
                  [daily |-> OrElseUnwrapOr(svcCfg.retention_daily, profile,
                                            "retention_daily", cfg.global.retention_daily),
                   weekly |-> OrElseUnwrapOr(svcCfg.retention_weekly, profile,
                                             "retention_weekly", cfg.global.retention_weekly),
                   monthly |-> OrElseUnwrapOr(svcCfg.retention_monthly, profile,
                                              "retention_monthly", cfg.global.retention_monthly),
                   yearly |-> OrElseUnwrapOr(svcCfg.retention_yearly, profile,
                                             "retention_yearly", cfg.global.retention_yearly)],
              notify_on |-> ResolveNotifyOn(svcCfg, profile, cfg)]

\* validate_service(name, service, config) is called for the service.
Validate ==
    /\ cpc = "parsed"
    /\ validation' = ValidateService(service, config)
    /\ cpc' = "validated"
    /\ UNCHANGED <<config, service, loaded, resolved, notConfig>>

\* load_config: validate_config(&config)? over all services.
LoadConfig ==
    /\ cpc = "validated"
    /\ loaded' \in ValidateConfig(config, service)
    /\ cpc' = "loaded"
    /\ UNCHANGED <<config, service, validation, resolved, notConfig>>

\* resolve_service(name, service, config) is called for the service.
Resolve ==
    /\ cpc = "loaded"
    /\ resolved' = ResolveService(service, config)
    /\ cpc' = "resolved"
    /\ UNCHANGED <<config, service, validation, loaded, notConfig>>

ConfigNext ==
    \/ Validate
    \/ LoadConfig
    \/ Resolve

(***************************************************************************)
(* managers/backup.rs: run_pre_hooks / run_post_hooks / run_hook           *)
(***************************************************************************)

\* Hook::timeout_seconds, ResolvedServiceConfig::timeout_seconds and the
\* time a hook command takes, in seconds.
HookTimeouts == {None, Some(10)}
ServiceTimeouts == {20}
Durations == {5, 15, 25}

\* Hook: what run_hook reads of it.
Hooks == [continue_on_error : BOOLEAN, timeout_seconds : HookTimeouts]

\* service.config.pre_backup_hooks or post_backup_hooks.
ConfiguredHookLists == UNION {[1..k -> Hooks] : k \in 0..MaxHookList}

\* No hook list is being run (the other specifications).
HooksIdle ==
    hk = [hooks |-> <<>>, timeout_seconds |-> 0, next |-> 0, ran |-> <<>>, result |-> "none"]

\* run_pre_hooks or run_post_hooks is entered.
HooksInit ==
    \E hooks \in ConfiguredHookLists, t \in ServiceTimeouts :
        hk = [hooks |-> hooks, timeout_seconds |-> t, next |-> 1, ran |-> <<>>,
              result |-> "none"]

\* Mutant of HookTimeout: the timeout of the hook itself is not looked at.
HookTimeoutOfService(hook, service_timeout) == service_timeout

\* run_hook: hook.timeout_seconds.or(Some(service.timeout_seconds)).
HookTimeout(hook, service_timeout) ==
    IF hook.timeout_seconds # None THEN hook.timeout_seconds[1] ELSE service_timeout

\* run_command under tokio::time::timeout: Err when the command is still
\* running at the timeout, else Err when its exit status is not a success.
CommandOutcome(exit, duration, timeout) ==
    IF duration > timeout THEN "fail"
    ELSE IF exit # 0 THEN "fail"
    ELSE "ok"

\* The loop of run_pre_hooks / run_post_hooks is at a hook: run_hook runs
\* its command, which exits with `exit` after `duration` seconds unless the
\* timeout ends the wait; an Err of run_hook returns from the loop (`?`).
RunHook(exit, duration) ==
    LET hook == hk.hooks[hk.next]
        timeout == HookTimeout(hook, hk.timeout_seconds)
        outcome == CommandOutcome(exit, duration, timeout)
        run == [hook |-> hk.next, exit |-> exit, duration |-> duration,
                logged |-> IF outcome = "ok" THEN "info"
                           ELSE IF hook.continue_on_error THEN "warn" ELSE "error"]
    IN  /\ hk.result = "none"
        /\ hk.next <= Len(hk.hooks)
        /\ hk' = IF HookAborts(hook.continue_on_error, outcome)
                 THEN [hk EXCEPT !.ran = Append(@, run), !.result = "Err"]
                 ELSE [hk EXCEPT !.ran = Append(@, run), !.next = @ + 1]
        /\ UNCHANGED notHooks

\* The loop is over: Ok(()), also for an empty list.
HooksDone ==
    /\ hk.result = "none"
    /\ hk.next > Len(hk.hooks)
    /\ hk' = [hk EXCEPT !.result = "Ok"]
    /\ UNCHANGED notHooks

HooksNext ==
    \/ \E exit \in {0, 1}, duration \in Durations : RunHook(exit, duration)
    \/ HooksDone

\* get_latest_snapshot has not been called (the other specifications).
SnapshotsIdle ==
    /\ listing = <<>>
    /\ latest = [kind |-> "none"]

(***************************************************************************)
(* utils/cron.rs                                                           *)
(***************************************************************************)

\* Service names, character by character: "w", "wb" (which has "w" as a
\* prefix) and "d".
CronServices == {<<"w">>, <<"w", "b">>, <<"d">>}

\* Schedules, each one token of a line.
CronSchedules == {"0 2 * * *", "0 3 * * *"}

\* The text every marker starts with and the parts of the command, each one
\* token of a line; a blank line is <<>>.
MarkerText == <<"# Restic Manager - Service: ">>

\* format!("# Restic Manager - Service: {}", service_name)
Marker(service_name) == MarkerText \o service_name

\* format!("{} --config {} run --service {} >> {} 2>&1", ..)
CronCommand(service_name) ==
    <<"restic-manager --config config.toml run --service ">> \o service_name
        \o <<" >> /var/log/restic-manager/">> \o service_name \o <<".log 2>&1">>

\* The two lines of cron_entry: the marker, then "<schedule> <command>".
CronEntry(service_name, schedule) ==
    <<Marker(service_name), <<schedule, " ">> \o CronCommand(service_name)>>

\* str::contains
Contains(line, needle) ==
    \E i \in 1..(Len(line) - Len(needle) + 1) :
        SubSeq(line, i, i + Len(needle) - 1) = needle

\* The loop over existing.lines() with skip_next: a line that contains the
\* marker is dropped and so is the line after it.
RECURSIVE RemoveMarked(_, _, _)
RemoveMarked(lines, marker, skip_next) ==
    IF lines = <<>> THEN <<>>
    ELSE IF Contains(Head(lines), marker) THEN RemoveMarked(Tail(lines), marker, TRUE)
    ELSE IF skip_next THEN RemoveMarked(Tail(lines), marker, FALSE)
    ELSE <<Head(lines)>> \o RemoveMarked(Tail(lines), marker, FALSE)

\* existing.contains(&marker), on the whole crontab.
HasMarker(tab, marker) == \E i \in DOMAIN tab : Contains(tab[i], marker)

\* The lines of new_lines.join("\n") + "\n": one blank line when there is none.
Joined(new_lines) == IF new_lines = <<>> THEN <<<<>>>> ELSE new_lines

\* The crontab add_cron_job writes.
CrontabAfterAdd(tab, service_name, schedule) ==
    IF HasMarker(tab, Marker(service_name))
    THEN Joined(RemoveMarked(tab, Marker(service_name), FALSE)
                    \o CronEntry(service_name, schedule))
    ELSE IF tab = <<>> THEN CronEntry(service_name, schedule)
    ELSE tab \o <<<<>>>> \o CronEntry(service_name, schedule)

\* The crontab remove_cron_job writes (none when there is no marker).
CrontabAfterRemove(tab, service_name) ==
    IF ~HasMarker(tab, Marker(service_name)) THEN tab
    ELSE Joined(RemoveMarked(tab, Marker(service_name), FALSE))

\* No crontab, or one line that is not of restic-manager.
CronInit ==
    /\ crontab \in {<<>>, <<<<"MAILTO=root">>>>}
    /\ jobs = [n \in CronServices |-> None]
    /\ cron_calls = 0

\* The crontab untouched (the other specifications).
CronIdle ==
    /\ crontab = <<>>
    /\ jobs = [n \in CronServices |-> None]
    /\ cron_calls = 0

\* add_cron_job: a dry run prints only; `io` says whether get_crontab or
\* set_crontab fails, which returns Err with the crontab as it was.
AddCronJob(service_name, schedule, dry_run, io) ==
    /\ cron_calls < MaxCronCalls
    /\ cron_calls' = cron_calls + 1
    /\ IF dry_run \/ io # "ok"
       THEN UNCHANGED <<crontab, jobs>>
       ELSE /\ crontab' = CrontabAfterAdd(crontab, service_name, schedule)
            /\ jobs' = [jobs EXCEPT ![service_name] = Some(schedule)]
    /\ UNCHANGED notCron

\* remove_cron_job
RemoveCronJob(service_name, io) ==
    /\ cron_calls < MaxCronCalls
    /\ cron_calls' = cron_calls + 1
    /\ IF io # "ok"
       THEN UNCHANGED <<crontab, jobs>>
       ELSE /\ crontab' = CrontabAfterRemove(crontab, service_name)
            /\ jobs' = [jobs EXCEPT ![service_name] = None]
    /\ UNCHANGED notCron

CronNext ==
    \/ \E n \in CronServices, s \in CronSchedules, dry_run \in BOOLEAN,
          io \in {"ok", "read_fails", "write_fails"} : AddCronJob(n, s, dry_run, io)
    \/ \E n \in CronServices, io \in {"ok", "read_fails", "write_fails"} :
          RemoveCronJob(n, io)

InitCron == CronInit /\ LockInit /\ NotifyIdle /\ BackupIdle /\ AllIdle /\ ConfigIdle /\ HooksIdle /\ SnapshotsIdle

SpecCron == InitCron /\ [][CronNext]_vars

(***************************************************************************)
(* utils/restic.rs: get_latest_snapshot                                    *)
(***************************************************************************)

\* Snapshot.time, as a point in time.
SnapshotTimes == 1..MaxSnapshots

\* What `restic snapshots --json` can print: the snapshots of the
\* repository in the order restic lists them, which list_snapshots keeps.
Listings ==
    UNION {[1..n -> [id : {"s"}, time : SnapshotTimes]] : n \in 0..MaxSnapshots}

\* A repository and no call made yet.
SnapshotsInit ==
    /\ listing \in Listings
    /\ latest = [kind |-> "none"]

\* snapshots.into_iter().last()
Last(snapshots) ==
    IF snapshots = <<>> THEN None ELSE Some(snapshots[Len(snapshots)])

\* get_latest_snapshot: list_snapshots(env, timeout)? and then the last
\* element of the Vec it returned.
GetLatestSnapshot(listed) ==
    /\ latest.kind = "none"
    /\ latest' = IF listed = "Err"
                 THEN [kind |-> "Err", value |-> None]
                 ELSE [kind |-> "Ok", value |-> Last(listing)]
    /\ UNCHANGED <<listing, notSnapshots>>

SnapshotsNext == \E listed \in {"Ok", "Err"} : GetLatestSnapshot(listed)

InitSnapshots == SnapshotsInit /\ LockInit /\ NotifyIdle /\ BackupIdle /\ AllIdle /\ ConfigIdle /\ HooksIdle /\ CronIdle

SpecSnapshots == InitSnapshots /\ [][SnapshotsNext]_vars

InitHooks == HooksInit /\ LockInit /\ NotifyIdle /\ BackupIdle /\ AllIdle /\ ConfigIdle /\ CronIdle /\ SnapshotsIdle

SpecHooks == InitHooks /\ [][HooksNext]_vars

InitLock == LockInit /\ NotifyIdle /\ BackupIdle /\ AllIdle /\ ConfigIdle /\ HooksIdle /\ CronIdle /\ SnapshotsIdle

SpecLock == InitLock /\ [][LockNext]_vars

InitNotify == NotifyInit /\ LockInit /\ BackupIdle /\ AllIdle /\ ConfigIdle /\ HooksIdle /\ CronIdle /\ SnapshotsIdle

InitBackup == BackupInit /\ LockInit /\ NotifyIdle /\ AllIdle /\ ConfigIdle /\ HooksIdle /\ CronIdle /\ SnapshotsIdle

SpecBackup == InitBackup /\ [][BackupNext]_vars

InitUnlock == UnlockInit /\ LockInit /\ NotifyIdle /\ AllIdle /\ ConfigIdle /\ HooksIdle /\ CronIdle /\ SnapshotsIdle

SpecUnlock == InitUnlock /\ [][UnlockNext]_vars

SpecNotify == InitNotify /\ [][NotifyNext]_vars

SpecDestinations == InitNotify /\ [][DestinationsNext]_vars

InitSenders == SendersInit /\ LockInit /\ BackupIdle /\ AllIdle /\ ConfigIdle /\ HooksIdle /\ CronIdle /\ SnapshotsIdle

SpecSenders == InitSenders /\ [][SendersNext]_vars

InitAll == AllInit /\ LockInit /\ NotifyIdle /\ BackupIdle /\ ConfigIdle /\ HooksIdle /\ CronIdle /\ SnapshotsIdle

SpecAll == InitAll /\ [][AllNext]_vars

InitConfig == ConfigInit /\ LockInit /\ NotifyIdle /\ BackupIdle /\ AllIdle /\ HooksIdle /\ CronIdle /\ SnapshotsIdle

SpecConfig == InitConfig /\ [][ConfigNext]_vars

InitNotifyOn == NotifyOnInit /\ LockInit /\ NotifyIdle /\ BackupIdle /\ AllIdle /\ HooksIdle /\ CronIdle /\ SnapshotsIdle

SpecNotifyOn == InitNotifyOn /\ [][ConfigNext]_vars

(***************************************************************************)
(* Claims about backup_service                                             *)
(***************************************************************************)

\* backup_service has returned from a run that held the lock.
RunReturned ==
    /\ bpc = "done"
    /\ result.why \notin {"disabled", "Failed to acquire lock"}

\* The events of the log with one of the given operations, in order.
Events(ops) == SelectSeq(log, LAMBDA e : e.op \in ops)

\* The destinations backup_to_destination was called for, in order.
Attempted == [i \in DOMAIN Events({"backup_to_destination"}) |->
                 Events({"backup_to_destination"})[i].target]

\* What each call of backup_to_destination returned, in order.
Returns == Events({"return"})

\* The calls that returned an error, as (destination, error), in order.
FailedReturns ==
    LET failed == SelectSeq(Returns, LAMBDA e : e.arg # "Ok")
    IN  [i \in DOMAIN failed |-> [target |-> failed[i].target, error |-> failed[i].arg]]

\* Operations on the repository of a destination.
RepositoryOps == {"init", "backup", "forget", "unlock"}

\* Every name of the target list is in the destination map.
TargetsKnown == \A i \in DOMAIN svc.targets : svc.targets[i] \in DestinationNames

\* The first position of the target list whose name is not in the map
\* (one past the end when there is none).
FirstUnknown ==
    IF TargetsKnown THEN Len(svc.targets) + 1
    ELSE CHOOSE i \in DOMAIN svc.targets :
            /\ svc.targets[i] \notin DestinationNames
            /\ \A j \in 1..(i - 1) : svc.targets[j] \in DestinationNames

\* C2: in every run each destination of the target list is
\* attempted exactly once, in list order, and backup_service returns an
\* error if and only if a destination failed, naming exactly the failed
\* destinations with their causes.
C2_Isolation ==
    RunReturned =>
        /\ Attempted = svc.targets
        /\ (result.kind = "Err") <=> (FailedReturns # <<>>)
        /\ result.errors = FailedReturns

\* What the loop of backup_service does do: the destinations before the
\* first name missing from the destination map are attempted exactly once
\* each, in list order, whatever the earlier ones returned; when no name is
\* missing that is the whole list, and backup_service returns an error if
\* and only if a destination failed, naming exactly the failed destinations
\* with their causes; a missing name ends the run there with an error that
\* names only it.
C2_IsolationKnownTargets ==
    RunReturned =>
        /\ Attempted = SubSeq(svc.targets, 1, FirstUnknown - 1)
        /\ Len(Returns) = Len(Attempted)
        /\ errors = FailedReturns
        /\ TargetsKnown =>
              /\ (result.kind = "Err") <=> (FailedReturns # <<>>)
              /\ result.errors = FailedReturns
        /\ ~TargetsKnown =>
              /\ result.kind = "Err"
              /\ result.errors = <<svc.targets[FirstUnknown]>>

\* A call of backup_to_destination has returned this error.
HasReturned(why) == \E i \in DOMAIN log : log[i].op = "return" /\ log[i].arg = why

\* An operation of the set was performed in the run.
Performed(ops) == \E i \in DOMAIN log : log[i].op \in ops

\* C5: when a pre-backup hook with continue_on_error = false has failed, no
\* volume is archived and no repository of any destination is initialized,
\* transferred to, pruned or unlocked in the run, and the run returns an
\* error with the lock released.
C5_HookAbortsRun ==
    HasReturned(ErrPreHooks) =>
        /\ ~Performed(RepositoryOps \cup {"archive_volume"})
        /\ bpc = "done" => (result.kind = "Err" /\ lock = "free")

\* C6: when a volume has failed its existence check or its archiving, no
\* destination is attempted in the run (no init, transfer, retention or
\* unlock) and the run returns an error.
C6_VolumesAllOrNothing ==
    HasReturned(ErrVolumes) =>
        /\ ~Performed(RepositoryOps)
        /\ bpc = "done" => result.kind = "Err"

\* C7: a destination whose transfer succeeded is reported as successful
\* whatever happens in the retention step: no destination is recorded as
\* failed because apply_retention failed.
C7_SoftRetention ==
    /\ \A k \in DOMAIN errors : errors[k].error # ErrRetention
    /\ \A k \in DOMAIN result.errors :
          result.kind = "Err" /\ result.why = "Backup failed"
              => result.errors[k].error # ErrRetention

\* C8: in a run that got as far as attempting its destinations (every
\* target name is in the destination map and a repository was initialized)
\* and has post-backup hooks, the post-backup hooks are executed after the
\* last destination was attempted, whether destinations failed or not.
C8_PostHooksAlways ==
    (/\ RunReturned
     /\ TargetsKnown
     /\ Performed({"init"})
     /\ svc.post_backup_hooks # <<>>) =>
        \E i, j \in DOMAIN log :
            /\ log[i].op = "backup_to_destination"
            /\ \A k \in DOMAIN log : log[k].op = "backup_to_destination" => k <= i
            /\ log[j].op = "post_hook"
            /\ j > i

OutcomeNotifications ==
    SelectSeq(notified, LAMBDA n : n.event_type \in {"Success", "Failure"})

SuccessNotification ==
    [event_type |-> "Success", service_name |-> ServiceName,
     destination |-> None, error |-> None]

FailureNotification(f) ==
    [event_type |-> "Failure", service_name |-> ServiceName,
     destination |-> Some(f.target), error |-> Some(f.error)]

\* The destination at this position of the target list returned Ok.
Succeeded(i) == i <= Len(Returns) /\ Returns[i].arg = "Ok"

\* The positions of the target list whose destination did not succeed.
FailedPositions == {i \in DOMAIN svc.targets : ~Succeeded(i)}

\* C10: when every destination succeeded exactly one success
\* notification (destination "all") is submitted and no failure
\* notification; when some failed, exactly one failure notification per
\* failed destination, with its name, and no success notification.
C10_OutcomeNotifications ==
    RunReturned =>
        IF FailedPositions = {}
        THEN OutcomeNotifications = <<SuccessNotification>>
        ELSE /\ Len(OutcomeNotifications) = Cardinality(FailedPositions)
             /\ \A i \in FailedPositions :
                  \E k \in DOMAIN OutcomeNotifications :
                     /\ OutcomeNotifications[k].event_type = "Failure"
                     /\ OutcomeNotifications[k].destination = Some(svc.targets[i])

\* What backup_service does submit: exactly one failure notification for each
\* destination whose backup failed, in order, carrying its name and error;
\* after them exactly one success notification (destination "all") when the
\* target list is not empty, all its names are in the destination map and
\* every destination succeeded, and no success notification otherwise; a
\* target name missing from the destination map gets no notification.
C10_OutcomeNotificationsPerReturn ==
    RunReturned =>
        OutcomeNotifications =
            [i \in DOMAIN FailedReturns |-> FailureNotification(FailedReturns[i])]
            \o (IF /\ svc.targets # <<>>
                   /\ TargetsKnown
                   /\ FailedReturns = <<>>
                THEN <<SuccessNotification>>
                ELSE <<>>)

(***************************************************************************)
(* Claims about the notification manager                                   *)
(***************************************************************************)

\* A delivery of the same key was confirmed less than the cooldown before
\* the latest send call.
RecentDelivery ==
    /\ lastSend.prevOk # -1
    /\ lastSend.at - lastSend.prevOk < ncfg.rate_limit_minutes * 60

\* C3: an enabled event whose delivery succeeds is delivered if and only if
\* no notification of the same key was successfully delivered less than the
\* configured cooldown before it (as long as the cache file could be read
\* and written).
C3_Cooldown ==
    (~cacheIoFailed /\ lastSend.outcome \in {"delivered", "suppressed"})
        => ((lastSend.outcome = "delivered") <=> ~RecentDelivery)

\* C4: a send whose webhook delivery fails returns the error and leaves the
\* cache as it was; the cache changes only in a send whose delivery was
\* confirmed; so after a failed send the key is not rate-limited.
C4_FailedDeliveryKeepsCache ==
    /\ [](lastSend.outcome = "failed" =>
            /\ lastSend.result = "Err"
            /\ ~IsRateLimited(ncfg, cache, lastSend.key, now))
    /\ [][/\ (sends' = sends + 1 /\ lastSend'.outcome = "failed") => cache' = cache
          /\ cache' # cache => (sends' = sends + 1 /\ lastSend'.outcome = "delivered")]_vars

\* C4 witness: a delivery failed for a key that has an older entry in the
\* cache, and that entry still carries the time of the earlier delivery.
C4_Witness ==
    /\ lastSend.outcome = "failed"
    /\ lastSend.key \in DOMAIN cache
    /\ cache[lastSend.key].last_sent < lastSend.at
    /\ cache[lastSend.key].last_sent = lastSend.prevOk

\* Processes whose acquire returned a BackupLock that has not begun to drop.
LiveHolders == {p \in Procs : lpc[p] = "holding"}

\* C1: at most one process holds a live BackupLock for the service at any time.
C1_MutualExclusion == Cardinality(LiveHolders) <= 1

(***************************************************************************)
(* Claims about the long-running notification                              *)
(***************************************************************************)

\* The long-running notifications of the run.
LongRunningNotifications ==
    SelectSeq(notified, LAMBDA n : n.event_type = "LongRunning")

\* C11: a run sends at most one long-running notification, and none unless
\* the threshold was exceeded; and a run, all of whose target names are in
\* the destination map, in which the threshold was exceeded while its
\* destinations were being processed (the last or only one included) has
\* sent exactly one by the time it returns.
C11_LongRunningOnce ==
    /\ Len(LongRunningNotifications) <= 1
    /\ Len(LongRunningNotifications) = 1 => over_threshold
    /\ (RunReturned /\ TargetsKnown /\ over_threshold) =>
          Len(LongRunningNotifications) = 1

(***************************************************************************)
(* Claims about backup_all                                                 *)
(***************************************************************************)

\* How often backup_service was called for the service.
TimesCalled(s) == Cardinality({i \in DOMAIN calls : calls[i] = s})

\* The services whose backup_service call returned an error.
FailedServices == {s \in Services : returned[s] \notin {"none", "Ok"}}

\* C12: when backup_all has returned, backup_service was called exactly once
\* for every enabled service and for no disabled one, whatever the calls
\* before it returned; the succeeded and failed counts add up to the number
\* of enabled services; and backup_all returned an error if and only if a
\* service failed, the error listing exactly the failed services, each once,
\* with its cause.
C12_BackupAll ==
    apc = "done" =>
        /\ \A s \in Services : TimesCalled(s) = IF resolved_services[s] THEN 1 ELSE 0
        /\ all_success_count + failure_count =
              Cardinality({s \in Services : resolved_services[s]})
        /\ failure_count = Cardinality(FailedServices)
        /\ (all_result.kind = "Err") <=> (FailedServices # {})
        /\ Len(all_result.errors) = Cardinality(FailedServices)
        /\ {all_result.errors[i] : i \in DOMAIN all_result.errors} =
              {[service |-> s, error |-> returned[s]] : s \in FailedServices}

\* C12 witness: with one service disabled, the first service called failed
\* and the next one was still run and succeeded; backup_all returned the
\* error of the failed one.
C12_Witness ==
    /\ apc = "done"
    /\ \E s \in Services : ~resolved_services[s]
    /\ Len(calls) >= 2
    /\ returned[calls[1]] = "Backup failed"
    /\ returned[calls[2]] = "Ok"
    /\ all_result.kind = "Err"
    /\ all_result.errors = <<[service |-> calls[1], error |-> "Backup failed"]>>

(***************************************************************************)
(* Claims about BackupLock::acquire                                        *)
(***************************************************************************)

\* The step in which the acquire of p returns (try_write has answered).
AcquireReturns(p) == lpc[p] = "opened" /\ lpc'[p] \in {"holding", "idle"}

\* Another process holds a BackupLock for the service (it may be dropping it).
HeldByOther(p) == \E q \in Procs \ {p} : lpc[q] \in {"holding", "dropping"}

\* C13: acquire never waits: try_write can always answer at once; when
\* another process holds a live BackupLock for the service the acquire
\* returns an error and leaves the holder as it was; and when no other
\* process holds one (the holder has dropped its handle) it succeeds.
C13_NonBlocking ==
    /\ [](\A p \in Procs : lpc[p] = "opened" => ENABLED TryWrite(p))
    /\ [][\A p \in Procs : AcquireReturns(p) =>
            /\ (LiveHolders \ {p} # {}) =>
                  /\ lpc'[p] = "idle"
                  /\ LiveHolders' = LiveHolders
            /\ ~HeldByOther(p) => lpc'[p] = "holding"]_vars

\* What acquire does guarantee: the same, for a holder of the flock on the
\* file that the acquiring process has opened.
C13_NonBlockingOnOpenedFile ==
    /\ [](\A p \in Procs : lpc[p] = "opened" => ENABLED TryWrite(p))
    /\ [][\A p \in Procs : AcquireReturns(p) =>
            /\ flockOwner[lfd[p]] # 0 =>
                  /\ lpc'[p] = "idle"
                  /\ LiveHolders' = LiveHolders
                  /\ flockOwner' = flockOwner
            /\ ~HeldByOther(p) => lpc'[p] = "holding"]_vars

\* C14: a process that terminated abnormally holds no flock, and an acquire
\* that opened the lock file left behind by a holder that terminated
\* abnormally succeeds unless another living process holds a BackupLock: the
\* leftover file carries no exclusivity.
C14_CrashNoDeadlock ==
    /\ [](\A i \in Inodes : flockOwner[i] # 0 =>
             lpc[flockOwner[i]] \in {"holding", "dropping"})
    /\ [][\A q \in Procs :
            (AcquireReturns(q) /\ lfd[q] \in crashedHolding /\ ~HeldByOther(q))
                => lpc'[q] = "holding"]_vars

\* C14 witness: a process holds the lock on the very file, still at the lock
\* path, whose earlier holder terminated abnormally.
C14_Witness ==
    \E q \in Procs :
        /\ lpc[q] = "holding"
        /\ lfd[q] \in crashedHolding
        /\ pathInode = lfd[q]
        /\ flockOwner[lfd[q]] = q
        /\ \E p \in Procs \ {q} : lpc[p] = "crashed"

(***************************************************************************)
(* Claims about the service lock in backup_service                         *)
(***************************************************************************)

\* C15: whenever backup_service has returned from a run that acquired the
\* lock (all destinations succeeded, some failed, or a target name was
\* missing from the destination map), the lock is free again.
C15_NoLockLeak == RunReturned => lock = "free"

\* C15 witness: the run returned early at a target name missing from the
\* destination map, after a destination had failed, and the lock is free.
C15_Witness ==
    /\ RunReturned
    /\ result.why = "Destination not found"
    /\ FailedReturns # <<>>
    /\ lock = "free"

\* C15 witness, the ordinary returns: one destination succeeded, one failed.
C15_WitnessBail ==
    /\ RunReturned
    /\ result.why = "Backup failed"
    /\ success_count = 1
    /\ lock = "free"

C17_NotificationsSoft ==
    (RunReturned /\ TargetsKnown) =>
        /\ (result.kind = "Err") <=> (FailedReturns # <<>>)
        /\ result.errors = FailedReturns
        /\ Attempted = svc.targets
        /\ Len(Returns) = Len(svc.targets)
        /\ Len(Events({"unlock"})) = Len(FailedReturns)

\* C17 witness: the notification manager returned an error for the success
\* notification of a run with two destinations, and the run returned Ok.
C17_Witness ==
    /\ RunReturned
    /\ notify_failed
    /\ Len(svc.targets) = 2
    /\ success_count = 2
    /\ OutcomeNotifications = <<SuccessNotification>>
    /\ result.kind = "Ok"

\* C17 witness, a failure notification: the notification manager returned
\* an error when the first destination failed, and the second destination
\* was still backed up.
C17_WitnessFailure ==
    /\ bpc = "loop"
    /\ notify_failed
    /\ ~over_threshold
    /\ Len(svc.targets) = 2
    /\ Len(Returns) = 2
    /\ Returns[1].arg # "Ok"
    /\ Returns[2].arg = "Ok"
    /\ Performed({"backup"})

(***************************************************************************)
(* Claims about configuration validation and resolution                    *)
(***************************************************************************)

\* The profile the service names, when the profile map has it.
ServiceProfile ==
    IF service.profile # None /\ service.profile[1] \in DOMAIN config.profiles
    THEN Some(config.profiles[service.profile[1]])
    ELSE None

\* C18: for a service of a configuration that load_config accepted,
\* resolve_service yields the service's targets if there are any, else the
\* targets of its profile if there are any, and fails in every other case:
\* no resolved service has an empty target list.
C18_NonEmptyTargets ==
    (cpc = "resolved" /\ loaded.kind = "Ok") =>
        IF service.targets # <<>>
        THEN resolved.kind = "Ok" /\ resolved.targets = service.targets
        ELSE IF ServiceProfile # None /\ ServiceProfile[1].targets # <<>>
        THEN resolved.kind = "Ok" /\ resolved.targets = ServiceProfile[1].targets
        ELSE resolved.kind = "Err"

\* What resolve_service returned for a field of the chain.
ResolvedField(f) ==
    CASE f = "timeout_seconds" -> resolved.timeout_seconds
      [] f = "retention_daily" -> resolved.retention.daily
      [] f = "retention_weekly" -> resolved.retention.weekly
      [] f = "retention_monthly" -> resolved.retention.monthly
      [] f = "retention_yearly" -> resolved.retention.yearly

\* The global default of a field of the chain.
GlobalDefault(f) ==
    IF f = "timeout_seconds" THEN config.global.default_timeout_seconds
    ELSE config.global[f]

\* C19: in every resolved service the timeout and each retention count is
\* the service's own value of that field if set, else the value of that
\* field in the service's profile if set, else the global default of that
\* field, whatever the other fields are set to at any tier.
C19_PerFieldPrecedence ==
    (cpc = "resolved" /\ resolved.kind = "Ok") =>
        \A f \in ChainFields :
            ResolvedField(f) =
                IF service[f] # None THEN ServiceValues[f]
                ELSE IF ServiceProfile # None /\ ServiceProfile[1][f] # None
                     THEN ProfileValues[f]
                     ELSE GlobalDefault(f)

\* C19 witness: one resolved service takes its daily count from the profile
\* (the service leaves it unset), its weekly count from the service although
\* the profile sets it too, its monthly count from the global default, and
\* its timeout from the service.
C19_Witness ==
    /\ cpc = "resolved"
    /\ resolved.kind = "Ok"
    /\ service.retention_daily = None
    /\ ServiceProfile # None
    /\ ServiceProfile[1].retention_daily # None
    /\ resolved.retention.daily = ProfileValues.retention_daily
    /\ ServiceProfile[1].retention_weekly # None
    /\ resolved.retention.weekly = ServiceValues.retention_weekly
    /\ resolved.retention.monthly = config.global.retention_monthly
    /\ resolved.timeout_seconds = ServiceValues.timeout_seconds

\* The profile of the service is set but is not in the profile map.
ProfileMissing == service.profile # None /\ service.profile[1] \notin DOMAIN config.profiles

\* The effective target list: the service's own targets if it has any, else
\* those of its profile.
EffectiveTargets ==
    IF service.targets # <<>> THEN service.targets
    ELSE IF ServiceProfile # None THEN ServiceProfile[1].targets
    ELSE <<>>

\* Some name of the effective target list is not in the destination map.
TargetMissing ==
    \E i \in DOMAIN EffectiveTargets : EffectiveTargets[i] \notin config.destinations

\* The schedules of five whitespace-separated fields.
FiveFieldSchedules ==
    {<<"0", " ", "2", " ", "*", " ", "*", " ", "*">>,
     <<" ", "0", " ", " ", "2", "\t", "*", " ", "*", " ", "*", " ">>}

\* C20: validate_service rejects the service exactly when its profile is set
\* but missing from the profile map, or a name of its effective target list
\* is missing from the destination map, or its schedule does not have
\* exactly five whitespace-separated fields; the error it returns is that of
\* one of the checks that fail; and load_config fails when the service is
\* rejected.
C20_ValidateService ==
    cpc # "parsed" =>
        /\ (validation.kind = "Err") <=>
              (ProfileMissing \/ TargetMissing \/ service.schedule \notin FiveFieldSchedules)
        /\ validation.kind = "Err" =>
              /\ validation.error \in {"ProfileNotFound", "DestinationNotFound", "ValidationError"}
              /\ validation.error = "ProfileNotFound" => ProfileMissing
              /\ validation.error = "DestinationNotFound" => TargetMissing
              /\ validation.error = "ValidationError" =>
                    service.schedule \notin FiveFieldSchedules
        /\ (cpc # "validated" /\ validation.kind = "Err") => loaded.kind = "Err"

\* C20 witness: a service without targets of its own is rejected for a name
\* missing in the target list of its profile, and load_config has failed.
C20_Witness ==
    /\ cpc = "loaded"
    /\ service.targets = <<>>
    /\ ServiceProfile # None
    /\ TargetMissing
    /\ service.schedule \in FiveFieldSchedules
    /\ validation = [kind |-> "Err", error |-> "DestinationNotFound"]
    /\ loaded.kind = "Err"

\* C20 witness, acceptance: a service whose schedule has runs of blanks and
\* a tab between its five fields is accepted, and so is the configuration.
C20_WitnessAccepted ==
    /\ cpc = "loaded"
    /\ Len(service.schedule) > 9
    /\ service.schedule \in FiveFieldSchedules
    /\ validation.kind = "Ok"
    /\ loaded.kind = "Ok"

\* C21: resolve_service fails with ProfileNotFound for a service whose
\* profile is set but is not in the profile map, whether or not the service
\* has targets of its own.
C21_UnknownProfile ==
    (cpc = "resolved" /\ ProfileMissing) =>
        /\ resolved.kind = "Err"
        /\ resolved.error = "ProfileNotFound"

\* C22: the resolved notify_on list is one whole list, never a merge: the
\* service's list if it is not empty, else the list of the service's profile
\* if the service has a profile and that list is not empty, else the global
\* list.
C22_NotifyOnOverride ==
    (cpc = "resolved" /\ resolved.kind = "Ok") =>
        resolved.notify_on =
            IF service.notify_on # <<>> THEN service.notify_on
            ELSE IF ServiceProfile # None /\ ServiceProfile[1].notify_on # <<>>
                 THEN ServiceProfile[1].notify_on
                 ELSE config.notifications.notify_on

\* A service without a list of its own takes the two events of its profile
\* although the global list names others.
C22_Witness ==
    /\ cpc = "resolved"
    /\ resolved.kind = "Ok"
    /\ service.notify_on = <<>>
    /\ ServiceProfile # None
    /\ ServiceProfile[1].notify_on = <<"Success", "Failure">>
    /\ config.notifications.notify_on = <<"Failure", "Warning">>
    /\ resolved.notify_on = <<"Success", "Failure">>

\* C23: a send that reads a cache entry of its key younger than the cooldown
\* returns Ok, attempts no delivery and leaves the cache file as it is, every
\* key's timestamp and counter; a send that reads an entry as old as the
\* cooldown or older is not suppressed.
C23_SuppressionKeepsCache ==
    [][sends' # sends =>
         LET key == lastSend'.key
             cooldown == ncfg.rate_limit_minutes * 60
             read == key \in DOMAIN cache /\ lastSend'.outcome # "load_error"
         IN  /\ (read /\ now - cache[key].last_sent < cooldown) =>
                    /\ lastSend'.result = "Ok"
                    /\ lastSend'.outcome \in {"suppressed", "disabled"}
                    /\ lastOk' = lastOk
                    /\ cache' = cache
             /\ (read /\ now - cache[key].last_sent >= cooldown) =>
                    lastSend'.outcome # "suppressed"]_vars

\* An enabled event was suppressed inside the cooldown of an earlier
\* delivery of its key, one tick before the cooldown ends.
C23_Witness ==
    /\ lastSend.outcome = "suppressed"
    /\ lastSend.result = "Ok"
    /\ lastSend.prevOk # -1
    /\ lastSend.at > lastSend.prevOk
    /\ lastSend.at - lastSend.prevOk + TickSecs = ncfg.rate_limit_minutes * 60
    /\ lastSend.key \in DOMAIN cache
    /\ cache[lastSend.key].last_sent = lastSend.prevOk

\* C24: send takes the not-enabled return exactly when no webhook URL is
\* configured or the configured notify_on does not contain the event's kind;
\* it then returns Ok, delivers nothing and neither reads nor writes the
\* cache file: the cache is unchanged and an unreadable cache file goes
\* unnoticed.
C24_DisabledIsNoOp ==
    [][sends' # sends =>
         /\ lastSend'.outcome = "disabled" <=>
                ~(ncfg.webhook /\ lastSend'.event_type \in ncfg.notify_on)
         /\ lastSend'.outcome = "disabled" =>
                /\ lastSend'.result = "Ok"
                /\ lastOk' = lastOk
                /\ cache' = cache
                /\ cacheIoFailed' = cacheIoFailed]_vars

\* With a webhook URL configured and a non-empty cache file, an event whose
\* kind is not in notify_on was skipped.
C24_Witness ==
    /\ lastSend.outcome = "disabled"
    /\ lastSend.result = "Ok"
    /\ ncfg.webhook
    /\ lastSend.event_type \notin ncfg.notify_on
    /\ cache # EmptyCache
    /\ ~cacheIoFailed

\* C25: backup_service of a service with enabled = false returns Ok at once:
\* the lock is not acquired, no hook, volume or destination step is performed
\* and no notification is sent.
C25_DisabledSkipped ==
    ~svc.enabled =>
        /\ bpc \in {"entry", "done"}
        /\ bpc = "done" => result = [kind |-> "Ok", why |-> "disabled", errors |-> <<>>]
        /\ lock # "run"
        /\ log = <<>>
        /\ notified = <<>>
        /\ ~staging

\* A disabled service with targets, hooks and volumes returned Ok while
\* another process held its lock.
C25_Witness ==
    /\ ~svc.enabled
    /\ bpc = "done"
    /\ result.kind = "Ok"
    /\ lock = "other"
    /\ svc.targets # <<>>
    /\ svc.pre_backup_hooks # <<>>
    /\ svc.volumes # <<>>

\* C26: when processes send concurrently for different services, no update
\* of the cache file is lost: once every process has delivered its
\* notification and saved the cache, the file holds the entry of each key
\* whose delivery is younger than the pruning window.
C26_NoLostUpdate ==
    (\A p \in Senders : sender[p].pc = "done") =>
        \A p \in Senders :
            now - sender[p].at < PruneWindowSecs =>
                CacheKey(SenderNotification(p)) \in DOMAIN cache

\* The positions of the log at which pre-backup hook h was executed.
PreHookRuns(h) == {i \in DOMAIN log : log[i].op = "pre_hook" /\ log[i].arg = h}

\* C27: in one backup_service run no pre-backup hook is executed more than
\* once, however many destinations the service has, and none is executed
\* for a destination other than the first.
C27_PreHooksOncePerRun ==
    \A h \in DOMAIN svc.pre_backup_hooks :
        /\ Cardinality(PreHookRuns(h)) <= 1
        /\ \A i \in PreHookRuns(h) : log[i].target = svc.targets[1]

\* C28: when backup_service has returned after attempting its destinations,
\* the temporary directory of the service is gone unless a removal of it
\* failed in the run; so also when destinations failed and when there was
\* nothing to back up.
C28_StagingRemoved ==
    (RunReturned /\ Performed({"backup_to_destination"}) /\ staging) =>
        \E i \in DOMAIN log : log[i] = Event("remove_dir_all", "fail")

\* The result of the unlock that followed the k-th failed destination.
UnlockAfter(k) == Events({"unlock"})[k]

\* C29: in the log of a run, a transfer directly follows the init of the
\* same destination and a retention directly follows its transfer (a failed
\* step is followed by the return of backup_to_destination instead); an
\* unlock directly follows each failed return of backup_to_destination,
\* for its destination, and nothing else; and whatever unlock returned, the
\* recorded error is the one backup_to_destination returned and the loop
\* goes on with the next target.
C29_StepOrderAndUnlock ==
    /\ \A i \in DOMAIN log :
          /\ log[i].op = "backup" =>
                i > 1 /\ log[i - 1].op = "init" /\ log[i - 1].target = log[i].target
          /\ log[i].op = "forget" =>
                i > 1 /\ log[i - 1].op = "backup" /\ log[i - 1].target = log[i].target
          /\ log[i].op = "unlock" =>
                /\ i > 1 /\ log[i - 1].op = "return" /\ log[i - 1].arg # "Ok"
                /\ log[i - 1].target = log[i].target
                /\ i < Len(log) =>
                      /\ log[i + 1].op = "backup_to_destination"
                      /\ log[i + 1].target # log[i].target
          /\ (log[i].op = "return" /\ log[i].arg # "Ok") =>
                IF i = Len(log) THEN bpc = "dest_err"
                ELSE log[i + 1].op = "unlock"
    /\ bpc # "dest_err" =>
          /\ errors = FailedReturns
          /\ Len(Events({"unlock"})) = Len(errors)
          /\ \A k \in DOMAIN errors : UnlockAfter(k).target = errors[k].target
    /\ (bpc = "done" /\ log # <<>> /\ log[Len(log)].op = "unlock") =>
          \/ ti = Len(svc.targets)
          \/ svc.targets[ti + 1] \notin DestinationNames

\* The unlock after the failed transfer to the first destination returned
\* Err; the error recorded is that of the transfer, and the second
\* destination was backed up and pruned.
C29_Witness ==
    /\ RunReturned
    /\ Len(svc.targets) = 2
    /\ errors = <<[target |-> svc.targets[1], error |-> ErrBackup]>>
    /\ UnlockAfter(1) = [op |-> "unlock", target |-> svc.targets[1], arg |-> "Err"]
    /\ success_count = 1
    /\ \E i \in DOMAIN log : log[i].op = "forget" /\ log[i].target = svc.targets[2]

\* The timeout an execution of hook h is given: its own timeout_seconds or
\* else that of the service.
EffectiveTimeout(h) ==
    IF hk.hooks[h].timeout_seconds = None THEN hk.timeout_seconds
    ELSE hk.hooks[h].timeout_seconds[1]

\* The k-th execution failed: a non-zero exit or the timeout exceeded.
Failed(k) == hk.ran[k].exit # 0 \/ hk.ran[k].duration > EffectiveTimeout(k)

\* C30: the hooks of a list are executed one after the other in list order,
\* each at most once. An execution fails when the command exits non-zero or
\* takes longer than the hook's own timeout_seconds, or else the service's
\* timeout. A failure of a hook with continue_on_error = true is a warning
\* and the list goes on; a failure of a hook with continue_on_error = false
\* is the last execution of the list, and the list returns Err. The list
\* returns Ok only after every hook was executed.
C30_HookList ==
    /\ \A k \in DOMAIN hk.ran :
          /\ hk.ran[k].hook = k
          /\ k <= Len(hk.hooks)
          /\ hk.ran[k].logged = "info" <=> ~Failed(k)
          /\ (Failed(k) /\ hk.hooks[k].continue_on_error) =>
                /\ hk.ran[k].logged = "warn"
                /\ k = Len(hk.ran) => (hk.result # "Err" /\ hk.next = k + 1)
          /\ (Failed(k) /\ ~hk.hooks[k].continue_on_error) =>
                /\ hk.ran[k].logged = "error"
                /\ k = Len(hk.ran)
                /\ hk.result = "Err"
    /\ hk.result = "Ok" => Len(hk.ran) = Len(hk.hooks)
    /\ hk.result = "Err" =>
          /\ hk.ran # <<>>
          /\ Failed(Len(hk.ran)) /\ ~hk.hooks[Len(hk.ran)].continue_on_error

\* The first hook has continue_on_error = true and exceeded its own timeout,
\* staying below that of the service; the second hook, without a timeout of
\* its own and with the default continue_on_error, then exited non-zero and
\* the list returned Err.
C30_Witness ==
    /\ Len(hk.hooks) = 2
    /\ Len(hk.ran) = 2
    /\ hk.hooks[1] = [continue_on_error |-> TRUE, timeout_seconds |-> Some(10)]
    /\ hk.ran[1] = [hook |-> 1, exit |-> 0, duration |-> 15, logged |-> "warn"]
    /\ hk.hooks[2] = [continue_on_error |-> FALSE, timeout_seconds |-> None]
    /\ hk.ran[2] = [hook |-> 2, exit |-> 1, duration |-> 15, logged |-> "error"]
    /\ hk.result = "Err"

\* C31: after a send whose delivery succeeded at time t for key k, the
\* cache file has k with last_sent = t and the count one above the previous
\* one (1 if k was absent), holds no entry whose last_sent is 86400 seconds
\* or more before t, and every other entry newer than that is as before;
\* no key appears that was not there. The configured cooldown plays no part.
C31_UpdateAndPrune ==
    [][(sends' # sends /\ lastSend'.outcome = "delivered") =>
         LET k == lastSend'.key
             t == now
         IN  /\ k \in DOMAIN cache'
             /\ cache'[k].last_sent = t
             /\ cache'[k].count = IF k \in DOMAIN cache THEN cache[k].count + 1 ELSE 1
             /\ DOMAIN cache' \subseteq DOMAIN cache \cup {k}
             /\ \A j \in DOMAIN cache' : t - cache'[j].last_sent < 86400
             /\ \A j \in DOMAIN cache \ {k} :
                    t - cache[j].last_sent < 86400 =>
                        j \in DOMAIN cache' /\ cache'[j] = cache[j]]_vars

\* With a cooldown of one hour, a delivery has removed the entry of another
\* key delivered exactly 24 hours before, and its own entry counts two.
C31_Witness ==
    /\ lastSend.outcome = "delivered"
    /\ ncfg.rate_limit_minutes = 60
    /\ lastSend.key \in DOMAIN cache
    /\ cache[lastSend.key] = [last_sent |-> lastSend.at, count |-> 2]
    /\ \E j \in CacheKeys \ {lastSend.key} :
          /\ lastOk[j] = lastSend.at - PruneWindowSecs
          /\ j \notin DOMAIN cache

\* C32: every operation backup_service performs for the service (a hook, a
\* volume check or archive, a repository init, transfer, retention or
\* unlock, the removal of the temporary directory) and the creation of the
\* temporary directory happen while the run holds the lock of the service:
\* after its acquire succeeded and before the lock is dropped.
C32_OperationsUnderLock ==
    [][(log' # log \/ staging' # staging) => (lock = "run" /\ lock' = "run")]_vars

\* A run that has returned and released the lock after a hook, a volume
\* archive, init, transfer, retention and, for a failed destination, unlock.
C32_Witness ==
    /\ RunReturned
    /\ lock = "free"
    /\ \A op \in {"pre_hook", "post_hook", "init", "backup", "forget", "unlock"} :
          Performed({op})
    /\ archived # <<>>

\* The positions of the crontab that hold the marker line of service n.
MarkerLines(n) == {i \in DOMAIN crontab : crontab[i] = Marker(n)}

\* C33: after any sequence of add_cron_job and remove_cron_job calls, every
\* service whose latest call was an add has exactly one marker line in the
\* crontab, followed by its command line with the schedule of that add, and
\* every service whose latest call was a remove (or that was never added)
\* has none; so a call for one service leaves the entries of the others,
\* also of those whose name starts with its name, as they were.
C33_OnlyOwnEntry ==
    \A n \in CronServices :
        IF jobs[n] = None THEN MarkerLines(n) = {}
        ELSE /\ Cardinality(MarkerLines(n)) = 1
             /\ \A i \in MarkerLines(n) :
                   /\ i < Len(crontab)
                   /\ crontab[i + 1] = CronEntry(n, jobs[n][1])[2]

\* C34: notifications that differ in service name, destination (none or a
\* name) or event kind have different cache keys, so a delivery of one never
\* suppresses the other: a send that directly follows a confirmed delivery
\* and is suppressed under the cache key of that delivery is a send of the
\* same notification.
C34_KeysDoNotCollide ==
    [][(/\ sends' # sends
        /\ lastSend.outcome = "delivered"
        /\ lastSend'.outcome = "suppressed"
        /\ lastSend'.key = lastSend.key) =>
           /\ lastSend'.destination = lastSend.destination
           /\ lastSend'.event_type = lastSend.event_type]_vars

\* C35: a target whose name is not in the destination map is recorded as a
\* failed destination of the run, and the targets after it are still
\* attempted: when backup_service has returned, every such target is named
\* in the errors of the result and every other target was attempted.
C35_MissingDestinationRecorded ==
    RunReturned =>
        \A i \in DOMAIN svc.targets :
            IF svc.targets[i] \in DestinationNames
            THEN \E j \in DOMAIN Attempted : Attempted[j] = svc.targets[i]
            ELSE /\ result.kind = "Err"
                 /\ result.why = "Backup failed"
                 /\ \E j \in DOMAIN result.errors : result.errors[j].target = svc.targets[i]

\* C36: when `restic init` reports that the repository is already
\* initialized, or succeeds, the transfer to that destination is the next
\* operation; after any other init failure backup_to_destination returns
\* the init error at once, so no transfer is attempted for the destination.
C36_InitIdempotent ==
    \A i \in DOMAIN log :
        log[i].op = "init" =>
            IF log[i].arg \in {"ok", "already_initialized"}
            THEN IF i = Len(log) THEN bpc = "backup"
                 ELSE log[i + 1].op = "backup" /\ log[i + 1].target = log[i].target
            ELSE /\ i < Len(log)
                 /\ log[i + 1] = [op |-> "return", target |-> log[i].target, arg |-> ErrInit]

\* A run over two repositories that were both initialized before returned
\* Ok after a transfer to each.
C36_Witness ==
    /\ RunReturned
    /\ result.kind = "Ok"
    /\ Len(svc.targets) = 2
    /\ \A t \in 1..2 :
          \E i \in DOMAIN log :
              /\ log[i] = [op |-> "init", target |-> svc.targets[t], arg |-> "already_initialized"]
              /\ log[i + 1].op = "backup"

\* The step in which the acquire of p returns the busy error.
AcquireFails(p) == AcquireReturns(p) /\ lpc'[p] = "idle"

\* C37: a failed acquire leaves the lock path, every flock and the set of
\* holders as they were, and while the holder that made it fail holds its
\* BackupLock the path still names the file the holder has locked, so that
\* any further acquire opens that file and fails too.
C37_FailedAcquireChangesNothing ==
    [][\A p \in Procs : AcquireFails(p) =>
          /\ pathInode' = pathInode
          /\ flockOwner' = flockOwner
          /\ LiveHolders' = LiveHolders
          /\ flockOwner[lfd[p]] \in LiveHolders => pathInode' = lfd[p]]_vars

\* What a failed acquire does guarantee: it changes neither the lock path
\* nor any flock nor the set of holders.
C37_FailedAcquireFrame ==
    [][\A p \in Procs : AcquireFails(p) =>
          /\ pathInode' = pathInode
          /\ flockOwner' = flockOwner
          /\ LiveHolders' = LiveHolders]_vars

\* C38: the service lock is released before the outcome notifications are
\* sent: a step that submits a success or failure notification is taken by
\* a run that no longer holds the service lock.
C38_LockReleasedBeforeNotifications ==
    [][OutcomeNotifications' # OutcomeNotifications => lock # "run"]_vars

\* C39: get_latest_snapshot returns None exactly when the listing is empty,
\* and otherwise a snapshot of the listing whose time no other snapshot of
\* the listing exceeds, whatever the order of the listing.
C39_LatestIsMostRecent ==
    latest.kind = "Ok" =>
        /\ latest.value = None <=> listing = <<>>
        /\ latest.value # None =>
              /\ \E i \in DOMAIN listing : latest.value = Some(listing[i])
              /\ \A j \in DOMAIN listing : listing[j].time <= latest.value[1].time

\* What get_latest_snapshot does guarantee: None exactly when the listing
\* is empty, and otherwise the last snapshot of the listing.
C39_LatestIsLast ==
    latest.kind = "Ok" =>
        /\ latest.value = None <=> listing = <<>>
        /\ listing # <<>> => latest.value = Some(listing[Len(listing)])

====
